---- MODULE Spec2Model ----
(***************************************************************************)
(* Model of vice's window manager (wm.go): the kd-tree of DisplayNodes,    *)
(* the config editor's modal pane-pick protocol (ModalButtonSet and the    *)
(* pick handlers registered in wmInit), the Create-New combo, Cancel,      *)
(* Save and Revert, the control-F full-screen toggle and split-line drags. *)
(*                                                                         *)
(* Go pointers are modelled as indices into a heap.  DisplayNode objects   *)
(* live in `heap`, Pane objects in `paneKind`; an object that nothing      *)
(* refers to any more is garbage.  A pointer carries no information but    *)
(* its identity, so every step ends by renumbering the live objects in the *)
(* order a walk from the program's pointers meets them; lastOp records the *)
(* renumbering so that the objects before and after a step can be matched. *)
(***************************************************************************)
EXTENDS Integers, Sequences, FiniteSets, TLC

\* Largest number of leaves the active tree is split into.
MaxLeaves == 3

\* Number of frames with an input event that a run is followed for.
MaxFrames == 7

\* Sizes of the two object pools.  The active tree, the editor's backup
\* tree and a stale full-screen subtree can be alive at the same time.
MaxNodes == 3 * (2 * MaxLeaves - 1)
MaxPanes == 3 * MaxLeaves + 2

Nodes == 1 .. MaxNodes
Panes == 1 .. MaxPanes

\* The nil pointer / nil interface value.
NIL == 0
\* The pseudo-pane returned by hit-testing for a split line (&d.SplitLine).
SPLITLINE == -1

SplitAxisNone == 0
SplitAxisX == 1
SplitAxisY == 2

\* Split-line positions are fractions of the parent extent, in hundredths.
PosHalf == 50
PosMin == 1
PosMax == 99

\* Drag deltas, as hundredths of the parent extent along the split axis.
DragDeltas == {-49, 49}

\* Pane types.  A free slot of the pane pool has kind "free".
RootKind == "RadarScopePane"
CreateKinds == {"CLIPane", "EmptyPane"}

VARIABLES
    heap,                  \* DisplayNode objects
    paneKind,              \* Pane objects: the dynamic type of each
    DisplayRoot,           \* positionConfig.DisplayRoot
    editorBackupRoot,      \* wm.editorBackupRoot
    showConfigEditor,      \* wm.showConfigEditor
    paneFirstPick,         \* wm.paneFirstPick
    handlePanePick,        \* wm.handlePanePick (which closure, and what it captured)
    active,                \* wm.configButtons.active
    paneCreatePrompt,      \* wm.paneCreatePrompt
    paneConfigHelpText,    \* wm.paneConfigHelpText
    fullScreenDisplayNode, \* wm.fullScreenDisplayNode
    crashed,               \* the process died of a runtime panic
    lastOp,                \* history: the event handled by the last step
    entryShape,            \* history: shape of the tree when edit mode was entered
    frames,                \* history: number of frames handled so far
    edited,                \* history: the tree's shape changed since edit mode was entered
    hit,                   \* a hit test: extent, mouse position, result, visited rectangles
    keyboardFocusPane,     \* wm.keyboardFocusPane
    keyboardFocusStack,    \* wm.keyboardFocusStack
    statusBarHasFocus,     \* wm.statusBarHasFocus
    mouseConsumerOverride, \* wm.mouseConsumerOverride
    activeCommand,         \* wm.statusBar.activeCommand != nil
    mouseDown,             \* environment: a mouse button is held down over the panes
    frameLog,              \* history: what the last frame's traversal handed out
    sb,                    \* wm.statusBar: the fields of StatusBar
    selectedAircraft,      \* positionConfig.selectedAircraft (its callsign)
    sbLog                  \* history: the input StatusBar.Draw handled last

\* The focus and input-routing state of the window manager.
routing == <<keyboardFocusPane, keyboardFocusStack, statusBarHasFocus,
             mouseConsumerOverride, activeCommand, mouseDown, frameLog>>

\* The command entry of the status bar.
console == <<sb, selectedAircraft, sbLog>>

vars == <<heap, paneKind, DisplayRoot, editorBackupRoot, showConfigEditor,
          paneFirstPick, handlePanePick, active, paneCreatePrompt,
          paneConfigHelpText, fullScreenDisplayNode, crashed, lastOp, entryShape,
          frames, edited, hit, routing, console>>

-----------------------------------------------------------------------------
\* DisplayNode and its zero value.

SplitLine(pos, axis) == [Pos |-> pos, Axis |-> axis]

DisplayNode(pane, splitLine, c0, c1) ==
    [Pane |-> pane, SplitLine |-> splitLine, Children |-> <<c0, c1>>]

ZeroNode == DisplayNode(NIL, SplitLine(0, SplitAxisNone), NIL, NIL)

\* d.Children[i] for the Go index i in {0, 1}.
Child(h, d, i) == h[d].Children[i + 1]

\* The nodes reachable from node d (d itself included), following Children.
RECURSIVE ReachFrom(_, _, _)
ReachFrom(h, frontier, seen) ==
    IF frontier \subseteq seen
    THEN seen
    ELSE LET new == frontier \ seen
             next == UNION {{h[n].Children[1], h[n].Children[2]} : n \in new} \ {NIL}
         IN  ReachFrom(h, next, seen \cup new)

Reach(h, d) == IF d = NIL THEN {} ELSE ReachFrom(h, {d}, {})

\* The smallest index of a pool that is not in use: what new(T) returns.
MinFree(pool, used) ==
    CHOOSE n \in pool \ used : \A m \in pool \ used : n <= m

-----------------------------------------------------------------------------
\* Read-only walks over a DisplayNode hierarchy.

\* What a lookup yields when a method dereferences its nil receiver.
PANIC == -2

\* DisplayNode.NodeForPane: the first node, in depth-first order, whose Pane
\* field is the given pane; nil when a leaf is reached without finding it.
RECURSIVE NodeForPane(_, _, _)
NodeForPane(h, d, pane) ==
    IF d = NIL THEN PANIC
    ELSE IF h[d].Pane = pane THEN d
    ELSE IF Child(h, d, 0) = NIL THEN NIL
    ELSE LET d0 == NodeForPane(h, Child(h, d, 0), pane)
         IN  IF d0 # NIL THEN d0 ELSE NodeForPane(h, Child(h, d, 1), pane)

\* DisplayNode.ParentNodeForPane: <<node, idx>> with node.Children[idx] the
\* node holding the pane, or <<nil, -1>>.
RECURSIVE ParentNodeForPane(_, _, _)
ParentNodeForPane(h, d, pane) ==
    IF d = NIL THEN <<NIL, -1>>
    ELSE IF Child(h, d, 0) # NIL /\ h[Child(h, d, 0)].Pane = pane THEN <<d, 0>>
    ELSE IF Child(h, d, 1) # NIL /\ h[Child(h, d, 1)].Pane = pane THEN <<d, 1>>
    ELSE LET r0 == ParentNodeForPane(h, Child(h, d, 0), pane)
         IN  IF r0[1] # NIL THEN r0 ELSE ParentNodeForPane(h, Child(h, d, 1), pane)

\* idx ^ 1 for the indices ParentNodeForPane returns (two's complement: -1 ^ 1 = -2).
Xor1(idx) == IF idx = 0 THEN 1 ELSE IF idx = 1 THEN 0 ELSE -2

\* DisplayNode.VisitPanes: the panes in visiting order; a split line is
\* visited between the two children of its node.
RECURSIVE VisitPanes(_, _)
VisitPanes(h, d) ==
    IF d = NIL THEN <<>>
    ELSE IF h[d].SplitLine.Axis = SplitAxisNone THEN <<h[d].Pane>>
    ELSE VisitPanes(h, Child(h, d, 0)) \o <<SPLITLINE>> \o VisitPanes(h, Child(h, d, 1))

\* The panes held by the leaves under d.
LeafPanes(h, d) ==
    LET v == VisitPanes(h, d)
    IN  {v[i] : i \in 1 .. Len(v)} \ {SPLITLINE}

\* Number of leaves under d.
LeafCount(h, d) ==
    LET v == VisitPanes(h, d)
    IN  Cardinality({i \in 1 .. Len(v) : v[i] # SPLITLINE})

\* DisplayNode.FindPaneForMouse, over all mouse positions inside the display
\* extent: the leaf panes it can return.  (A position outside the extent
\* yields nil and one on a divider strip yields the split line.)
RECURSIVE FindPaneForMouse(_, _)
FindPaneForMouse(h, d) ==
    IF d = NIL THEN {}
    ELSE IF h[d].SplitLine.Axis = SplitAxisNone THEN {h[d].Pane}
    ELSE FindPaneForMouse(h, Child(h, d, 0)) \cup FindPaneForMouse(h, Child(h, d, 1))

\* The interior nodes under d: those whose split line is drawn and hit-tested.
InteriorNodes(h, d) == {n \in Reach(h, d) : h[n].SplitLine.Axis # SplitAxisNone}

\* The shape of the hierarchy under d: split axes and positions, without
\* node or pane identities.
RECURSIVE Shape(_, _)
Shape(h, d) ==
    IF d = NIL THEN <<"nil">>
    ELSE IF h[d].SplitLine.Axis = SplitAxisNone /\ Child(h, d, 0) = NIL
    THEN <<"leaf">>
    ELSE <<"split", h[d].SplitLine.Axis, h[d].SplitLine.Pos,
           Shape(h, Child(h, d, 0)), Shape(h, Child(h, d, 1))>>

-----------------------------------------------------------------------------
\* Geometry: extents in window coordinates, split positions in hundredths.

\* splitLineWidth() at display scale 1.
SplitLineWidth == 2

\* Extent2D{p0, p1}.
Extent2D(x0, y0, x1, y1) == [x0 |-> x0, y0 |-> y0, x1 |-> x1, y1 |-> y1]

\* Extent2D.Inside: the rectangle with its border.
Inside(e, p) == p[1] >= e.x0 /\ p[1] <= e.x1 /\ p[2] >= e.y0 /\ p[2] <= e.y1

\* floor(v / 100) and ceil(v / 100).
Floor100(v) == v \div 100
Ceil100(v) == 0 - ((0 - v) \div 100)

\* The strip of a split line between lo and hi: the split coordinate
\* (1 - pos) * lo + pos * hi, widened by half the line width on both sides
\* and rounded outwards.
Strip(lo, hi, pos, lineWidth) ==
    LET split == (100 - pos) * lo + pos * hi
    IN  <<Floor100(split - 50 * lineWidth), Ceil100(split + 50 * lineWidth)>>

\* Extent2D.SplitX / SplitY: the extents of the first child, of the split
\* line and of the second child.
ExtentSplitX(e, pos, lineWidth) ==
    LET s == Strip(e.x0, e.x1, pos, lineWidth)
    IN  <<[e EXCEPT !.x1 = s[1]], [e EXCEPT !.x0 = s[1], !.x1 = s[2]], [e EXCEPT !.x0 = s[2]]>>

ExtentSplitY(e, pos, lineWidth) ==
    LET s == Strip(e.y0, e.y1, pos, lineWidth)
    IN  <<[e EXCEPT !.y1 = s[1]], [e EXCEPT !.y0 = s[1], !.y1 = s[2]], [e EXCEPT !.y0 = s[2]]>>

\* The Pane value &d.SplitLine of an interior node d.
SplitLineRef(d) == 0 - (100 + d)

\* DisplayNode.VisitPanesWithBounds: the visits in order, each with the
\* pane's extent, its parent's extent and the pane.
RECURSIVE VisitPanesWithBounds(_, _, _, _)
VisitPanesWithBounds(h, d, displayExtent, parentDisplayExtent) ==
    IF h[d].SplitLine.Axis = SplitAxisNone
    THEN <<[extent |-> displayExtent, parent |-> parentDisplayExtent, pane |-> h[d].Pane]>>
    ELSE LET s == IF h[d].SplitLine.Axis = SplitAxisX
                  THEN ExtentSplitX(displayExtent, h[d].SplitLine.Pos, SplitLineWidth)
                  ELSE ExtentSplitY(displayExtent, h[d].SplitLine.Pos, SplitLineWidth)
         IN  VisitPanesWithBounds(h, Child(h, d, 0), s[1], displayExtent)
             \o <<[extent |-> s[2], parent |-> displayExtent, pane |-> SplitLineRef(d)]>>
             \o VisitPanesWithBounds(h, Child(h, d, 1), s[3], displayExtent)

\* FindPaneForMouseAt with both axes split along x.
RECURSIVE FindPaneForMouseAtAxisX(_, _, _, _)
FindPaneForMouseAtAxisX(h, d, displayExtent, p) ==
    IF ~Inside(displayExtent, p) THEN NIL
    ELSE IF h[d].SplitLine.Axis = SplitAxisNone THEN h[d].Pane
    ELSE LET s == ExtentSplitX(displayExtent, h[d].SplitLine.Pos, SplitLineWidth)
         IN  IF Inside(s[1], p) THEN FindPaneForMouseAtAxisX(h, Child(h, d, 0), s[1], p)
             ELSE IF Inside(s[2], p) THEN SplitLineRef(d)
             ELSE IF Inside(s[3], p) THEN FindPaneForMouseAtAxisX(h, Child(h, d, 1), s[3], p)
             ELSE NIL

\* DisplayNode.FindPaneForMouse for the mouse position p: the pane or split
\* line the position is inside, nil if it is outside the extent.
RECURSIVE FindPaneForMouseAt(_, _, _, _)
FindPaneForMouseAt(h, d, displayExtent, p) ==
    IF ~Inside(displayExtent, p) THEN NIL
    ELSE IF h[d].SplitLine.Axis = SplitAxisNone THEN h[d].Pane
    ELSE LET s == IF h[d].SplitLine.Axis = SplitAxisX
                  THEN ExtentSplitX(displayExtent, h[d].SplitLine.Pos, SplitLineWidth)
                  ELSE ExtentSplitY(displayExtent, h[d].SplitLine.Pos, SplitLineWidth)
         IN  IF Inside(s[1], p) THEN FindPaneForMouseAt(h, Child(h, d, 0), s[1], p)
             ELSE IF Inside(s[2], p) THEN SplitLineRef(d)
             ELSE IF Inside(s[3], p) THEN FindPaneForMouseAt(h, Child(h, d, 1), s[3], p)
             ELSE NIL

-----------------------------------------------------------------------------
\* Object lifetime.

\* The DisplayNodes some pointer of the program still leads to.
LiveNodes(h, root, backup, fullScreen) ==
    Reach(h, root) \cup Reach(h, backup) \cup Reach(h, fullScreen)

\* The Panes some reference of the program still leads to.
LivePanes(h, nodes, firstPick, handler) ==
    ({h[n].Pane : n \in nodes} \cup {firstPick, handler.newPane}) \ {NIL}

\* The Panes the focus state refers to: they stay alive as long as it does.
FocusPanes ==
    ({keyboardFocusPane, mouseConsumerOverride}
       \cup {keyboardFocusStack[i] : i \in 1 .. Len(keyboardFocusStack)}) \cap Panes

\* The objects in use in the current state.
UsedNodes == LiveNodes(heap, DisplayRoot, editorBackupRoot, fullScreenDisplayNode)
UsedPanes == LivePanes(heap, UsedNodes, paneFirstPick, handlePanePick) \cup FocusPanes

\* The store an operation works on: the two pools, what is allocated in
\* them, and the value the last call returned.
Store == [heap |-> heap, kind |-> paneKind, usedN |-> UsedNodes,
          usedP |-> UsedPanes, ret |-> NIL]

\* &DisplayNode{...}: a new node object with the given contents.
NewDisplayNode(st, node) ==
    LET n == MinFree(Nodes, st.usedN)
    IN  [st EXCEPT !.heap[n] = node, !.usedN = @ \cup {n}, !.ret = n]

\* NewEmptyPane(), NewCLIPane(), &EmptyPane{}, ...: a new pane object.
NewPane(st, kind) ==
    LET p == MinFree(Panes, st.usedP)
    IN  [st EXCEPT !.kind[p] = kind, !.usedP = @ \cup {p}, !.ret = p]

\* Pane.Duplicate: a new pane object of the same type as the receiver.
PaneDuplicate(st, pane) == NewPane(st, st.kind[pane])

\* A duplicate that hands back the node it was given.
DuplicateAlias(st, d) == [st EXCEPT !.ret = d]

\* DisplayNode.Duplicate: a deep copy of the hierarchy under d.
RECURSIVE Duplicate(_, _)
Duplicate(st, d) ==
    LET s1 == NewDisplayNode(st, ZeroNode)
        dupe == s1.ret
        s2 == IF st.heap[d].Pane # NIL
              THEN PaneDuplicate(s1, st.heap[d].Pane)
              ELSE [s1 EXCEPT !.ret = NIL]
        s3 == [s2 EXCEPT !.heap[dupe].Pane = s2.ret,
                         !.heap[dupe].SplitLine = st.heap[d].SplitLine]
    IN  IF st.heap[d].SplitLine.Axis # SplitAxisNone
        THEN LET s4 == Duplicate(s3, Child(st.heap, d, 0))
                 s5 == Duplicate([s4 EXCEPT !.heap[dupe].Children[1] = s4.ret],
                                 Child(st.heap, d, 1))
             IN  [s5 EXCEPT !.heap[dupe].Children[2] = s5.ret, !.ret = dupe]
        ELSE [s3 EXCEPT !.ret = dupe]

\* Room in the pools for n more nodes and p more panes.
Room(n, p) ==
    /\ Cardinality(Nodes \ UsedNodes) >= n
    /\ Cardinality(Panes \ UsedPanes) >= p

-----------------------------------------------------------------------------
\* The pane-pick callbacks registered in wmInit and wmDrawConfigEditor.

\* wm.handlePanePick: which closure is registered and the pane it captured.
Handler(fn, newPane) == [fn |-> fn, newPane |-> newPane]
NoHandler == Handler("nil", NIL)

ButtonNames == {"Copy", "Exchange", "Split Horizontally", "Split Vertically", "Delete"}

\* What a callback leaves behind: the store, the wm fields it writes, its
\* return value, and whether it died of a nil dereference on the way.
Outcome(st, first, prompt, help, result, panic) ==
    [st |-> st, paneFirstPick |-> first, paneCreatePrompt |-> prompt,
     paneConfigHelpText |-> help, result |-> result, panic |-> panic]

\* A callback that panics before it has written anything.
Panicked == Outcome(Store, paneFirstPick, paneCreatePrompt, paneConfigHelpText, FALSE, TRUE)

\* The Copy callback with the duplication left out.
CopyCallbackNoDuplicate(pane) ==
    IF paneFirstPick = NIL
    THEN Outcome(Store, pane, paneCreatePrompt, "Select destination for copy", FALSE, FALSE)
    ELSE LET node == NodeForPane(heap, DisplayRoot, pane)
         IN  IF node \notin Nodes
             THEN Panicked
             ELSE Outcome([Store EXCEPT !.heap[node].Pane = paneFirstPick],
                          NIL, paneCreatePrompt, "", TRUE, FALSE)

\* The callback of the "Copy" button.
CopyCallback(pane) ==
    IF paneFirstPick = NIL
    THEN Outcome(Store, pane, paneCreatePrompt, "Select destination for copy", FALSE, FALSE)
    ELSE LET node == NodeForPane(heap, DisplayRoot, pane)
             s1 == PaneDuplicate(Store, paneFirstPick)
         IN  IF node \notin Nodes
             THEN Panicked
             ELSE Outcome([s1 EXCEPT !.heap[node].Pane = s1.ret],
                          NIL, paneCreatePrompt, "", TRUE, FALSE)

\* The Exchange callback with the second Pane field assigned from itself.
ExchangeCallbackOneWay(pane) ==
    IF paneFirstPick = NIL
    THEN Outcome(Store, pane, paneCreatePrompt, "Select second window for exchange", FALSE, FALSE)
    ELSE LET n0 == NodeForPane(heap, DisplayRoot, paneFirstPick)
             n1 == NodeForPane(heap, DisplayRoot, pane)
         IN  IF n0 = PANIC \/ n1 = PANIC
             THEN Panicked
             ELSE IF pane # paneFirstPick
             THEN IF n0 \notin Nodes \/ n1 \notin Nodes
                  THEN Panicked
                  ELSE Outcome([Store EXCEPT !.heap[n0].Pane = heap[n1].Pane],
                               NIL, paneCreatePrompt, "", TRUE, FALSE)
             ELSE Outcome(Store, NIL, paneCreatePrompt, "", TRUE, FALSE)

\* The callback of the "Exchange" button.
ExchangeCallback(pane) ==
    IF paneFirstPick = NIL
    THEN Outcome(Store, pane, paneCreatePrompt, "Select second window for exchange", FALSE, FALSE)
    ELSE LET n0 == NodeForPane(heap, DisplayRoot, paneFirstPick)
             n1 == NodeForPane(heap, DisplayRoot, pane)
         IN  IF n0 = PANIC \/ n1 = PANIC
             THEN Panicked
             ELSE IF pane # paneFirstPick
             THEN IF n0 \notin Nodes \/ n1 \notin Nodes
                  THEN Panicked
                  ELSE Outcome([Store EXCEPT !.heap[n0].Pane = heap[n1].Pane,
                                             !.heap[n1].Pane = heap[n0].Pane],
                               NIL, paneCreatePrompt, "", TRUE, FALSE)
             ELSE Outcome(Store, NIL, paneCreatePrompt, "", TRUE, FALSE)

\* The split callback with the axis of the SplitY helper (always SplitAxisX).
HandleSplitPickAxisX(axis, pane) ==
    LET node == NodeForPane(heap, DisplayRoot, pane)
    IN  IF node \notin Nodes
        THEN Panicked
        ELSE LET s1 == NewPane(Store, "EmptyPane")
                 s2 == NewDisplayNode(s1, DisplayNode(s1.ret, SplitLine(0, SplitAxisNone), NIL, NIL))
                 s3 == NewDisplayNode(s2, DisplayNode(pane, SplitLine(0, SplitAxisNone), NIL, NIL))
             IN  Outcome([s3 EXCEPT !.heap[node] =
                              DisplayNode(NIL, SplitLine(PosHalf, SplitAxisX), s2.ret, s3.ret)],
                         paneFirstPick, paneCreatePrompt, "", TRUE, FALSE)

\* The split callback that leaves the picked pane in the node it splits.
HandleSplitPickKeepPane(axis, pane) ==
    LET node == NodeForPane(heap, DisplayRoot, pane)
    IN  IF node \notin Nodes
        THEN Panicked
        ELSE LET s1 == NewPane(Store, "EmptyPane")
                 s2 == NewDisplayNode(s1, DisplayNode(s1.ret, SplitLine(0, SplitAxisNone), NIL, NIL))
                 s3 == NewDisplayNode(s2, DisplayNode(pane, SplitLine(0, SplitAxisNone), NIL, NIL))
             IN  Outcome([s3 EXCEPT !.heap[node] =
                              DisplayNode(pane, SplitLine(PosHalf, axis), s2.ret, s3.ret)],
                         paneFirstPick, paneCreatePrompt, "", TRUE, FALSE)

\* handleSplitPick(axis): the callback of the two split buttons.
HandleSplitPick(axis, pane) ==
    LET node == NodeForPane(heap, DisplayRoot, pane)
    IN  IF node \notin Nodes
        THEN Panicked
        ELSE LET s1 == NewPane(Store, "EmptyPane")
                 s2 == NewDisplayNode(s1, DisplayNode(s1.ret, SplitLine(0, SplitAxisNone), NIL, NIL))
                 s3 == NewDisplayNode(s2, DisplayNode(pane, SplitLine(0, SplitAxisNone), NIL, NIL))
             IN  Outcome([s3 EXCEPT !.heap[node] =
                              DisplayNode(NIL, SplitLine(PosHalf, axis), s2.ret, s3.ret)],
                         paneFirstPick, paneCreatePrompt, "", TRUE, FALSE)

\* The Delete callback that keeps the picked child instead of its sibling.
DeleteCallbackKeepPicked(pane) ==
    LET r == ParentNodeForPane(heap, DisplayRoot, pane)
        node == r[1]
        other == r[2]
    IN  IF node \notin Nodes \/ other \notin {0, 1}
        THEN Panicked
        ELSE Outcome([Store EXCEPT !.heap[node] = heap[Child(heap, node, other)]],
                     paneFirstPick, paneCreatePrompt, "", TRUE, FALSE)

\* The callback of the "Delete" button.
DeleteCallback(pane) ==
    LET r == ParentNodeForPane(heap, DisplayRoot, pane)
        node == r[1]
        other == Xor1(r[2])
    IN  IF node \notin Nodes \/ other \notin {0, 1}
        THEN Panicked
        ELSE Outcome([Store EXCEPT !.heap[node] = heap[Child(heap, node, other)]],
                     paneFirstPick, paneCreatePrompt, "", TRUE, FALSE)

\* setPicked(newPane): the callback of the "Create New..." combo.
SetPicked(newPane, pane) ==
    LET node == NodeForPane(heap, DisplayRoot, pane)
    IN  IF node \notin Nodes
        THEN Panicked
        ELSE Outcome([Store EXCEPT !.heap[node].Pane = newPane],
                     paneFirstPick, "", "", TRUE, FALSE)

\* The state of the modal buttons and of the pending pick, as a step finds
\* it: the active button, the closure registered, whether a first pick is
\* held, and the two texts.
EditState ==
    [active |-> active, handler |-> handlePanePick.fn, first |-> paneFirstPick # NIL,
     prompt |-> paneCreatePrompt, help |-> paneConfigHelpText]
NoEdit == [active |-> "", handler |-> "nil", first |-> FALSE, prompt |-> "", help |-> ""]

\* wm.handlePanePick(pane) for the closure currently registered.
InvokeHandler(pane) ==
    CASE handlePanePick.fn = "Copy" -> CopyCallback(pane)
      [] handlePanePick.fn = "Exchange" -> ExchangeCallback(pane)
      [] handlePanePick.fn = "Split Horizontally" -> HandleSplitPick(SplitAxisX, pane)
      [] handlePanePick.fn = "Split Vertically" -> HandleSplitPick(SplitAxisY, pane)
      [] handlePanePick.fn = "Delete" -> DeleteCallback(pane)
      [] handlePanePick.fn = "setPicked" -> SetPicked(handlePanePick.newPane, pane)

-----------------------------------------------------------------------------
\* The state after start-up and the events of a frame.

NoShape == <<"none">>

\* No hit test has been made.
NoHit == [done |-> FALSE]

\* No frame has been drawn.
NoFrame == [drawn |-> FALSE]

\* A nil FKeyCommand and a nil *Aircraft.
NoCommand == ""
NoAircraft == <<>>

\* MakeStatusBar(): the zero value of every field of StatusBar.
MakeStatusBar ==
    [activeCommand |-> NoCommand, inputFocus |-> 0, inputCursor |-> 0,
     commandArgs |-> <<>>, commandArgErrors |-> <<>>, commandErrorString |-> ""]

\* The status bar has handled no input yet.
NoKey == [input |-> "none"]

\* clamp(x, low, high)
clamp(x, low, high) == IF x < low THEN low ELSE IF x > high THEN high ELSE x

\* The node drawing and hit-testing start from: the full-screen node if one
\* is set, the root otherwise.
ViewRoot == IF fullScreenDisplayNode # NIL THEN fullScreenDisplayNode ELSE DisplayRoot

\* The show predicate each button was added with.
Show(name) ==
    IF name \in {"Split Horizontally", "Split Vertically"}
    THEN TRUE
    ELSE Child(heap, DisplayRoot, 0) # NIL

\* The help text a button's callback factory sets when the button is pressed.
ButtonHelpText(name) ==
    CASE name = "Copy" -> "Select window to copy"
      [] name = "Exchange" -> "Select first window for exchange"
      [] name = "Split Horizontally" -> "Select window to split"
      [] name = "Split Vertically" -> "Select window to split"
      [] name = "Delete" -> "Select window to delete"

\* The prompt of each entry of the "Create New..." combo.
CreatePrompt(kind) ==
    CASE kind = "CLIPane" -> "Command-line interface"
      [] kind = "EmptyPane" -> "Empty"

\* The nodes under d in depth-first order, parents first.
RECURSIVE Preorder(_, _)
Preorder(h, d) ==
    IF d = NIL THEN <<>>
    ELSE <<d>> \o Preorder(h, Child(h, d, 0)) \o Preorder(h, Child(h, d, 1))

\* s[i..] appended to acc, leaving out the NILs and what acc already holds.
RECURSIVE DedupFrom(_, _, _)
DedupFrom(s, i, acc) ==
    IF i > Len(s) THEN acc
    ELSE IF s[i] = NIL \/ \E j \in 1 .. Len(acc) : acc[j] = s[i]
         THEN DedupFrom(s, i + 1, acc)
         ELSE DedupFrom(s, i + 1, Append(acc, s[i]))

\* A sequence without its NILs and without the repetitions of an element.
Dedup(s) == DedupFrom(s, 1, <<>>)

\* Position of x in s, NIL if it is not there.
IndexOf(s, x) ==
    IF \E i \in 1 .. Len(s) : s[i] = x
    THEN CHOOSE i \in 1 .. Len(s) : s[i] = x
    ELSE NIL

\* The program state r (pools and pointers) with garbage dropped and the
\* live objects renumbered in walking order, and the renumbering itself.
Canon(r) ==
    LET nodeSeq == Dedup(Preorder(r.heap, r.DisplayRoot)
                         \o Preorder(r.heap, r.editorBackupRoot)
                         \o Preorder(r.heap, r.fullScreenDisplayNode))
        paneSeq == Dedup([i \in 1 .. Len(nodeSeq) |-> r.heap[nodeSeq[i]].Pane]
                         \o <<r.paneFirstPick, r.handlePanePick.newPane>>
                         \o SelectSeq(r.refs, LAMBDA x : x \in Panes))
        nodeMap == [n \in Nodes |-> IndexOf(nodeSeq, n)]
        paneMap == [p \in Panes |-> IndexOf(paneSeq, p)]
        N(n) == IF n \in Nodes THEN nodeMap[n] ELSE n
        P(p) == IF p \in Panes THEN paneMap[p] ELSE p
    IN  [heap |-> [i \in Nodes |->
                      IF i <= Len(nodeSeq)
                      THEN LET d == r.heap[nodeSeq[i]]
                           IN  DisplayNode(P(d.Pane), d.SplitLine,
                                           N(d.Children[1]), N(d.Children[2]))
                      ELSE ZeroNode],
         kind |-> [j \in Panes |->
                      IF j <= Len(paneSeq) THEN r.kind[paneSeq[j]] ELSE "free"],
         DisplayRoot |-> N(r.DisplayRoot),
         editorBackupRoot |-> N(r.editorBackupRoot),
         fullScreenDisplayNode |-> N(r.fullScreenDisplayNode),
         paneFirstPick |-> P(r.paneFirstPick),
         handlePanePick |-> Handler(r.handlePanePick.fn, P(r.handlePanePick.newPane)),
         nodeMap |-> nodeMap,
         paneMap |-> paneMap]

\* The pools and pointers a step leaves behind.
Raw(st, root, backup, fullScreen, firstPick, handler) ==
    [heap |-> st.heap, kind |-> st.kind, DisplayRoot |-> root,
     editorBackupRoot |-> backup, fullScreenDisplayNode |-> fullScreen,
     paneFirstPick |-> firstPick, handlePanePick |-> handler, refs |-> <<>>]

\* The step's effect on the pools and pointers, and its record in lastOp.
\* (The record of a hit test belongs to HitSpec and the routing of input to
\* FrameSpec; neither is followed here.)
Commit(r, op, fn, pane) ==
    LET c == Canon(r)
    IN  /\ UNCHANGED <<hit, routing, console>>
        /\ heap' = c.heap
        /\ paneKind' = c.kind
        /\ DisplayRoot' = c.DisplayRoot
        /\ editorBackupRoot' = c.editorBackupRoot
        /\ fullScreenDisplayNode' = c.fullScreenDisplayNode
        /\ paneFirstPick' = c.paneFirstPick
        /\ handlePanePick' = c.handlePanePick
        /\ lastOp' = [op |-> op, fn |-> fn, pane |-> pane, was |-> EditState,
                      nodeMap |-> c.nodeMap, paneMap |-> c.paneMap]
        /\ frames' = frames + 1
        /\ edited' = CASE op = "EnterEdit" -> FALSE
                        [] op \in {"Save", "Revert"} -> edited
                        [] OTHER -> edited \/ Shape(c.heap, c.DisplayRoot) # Shape(heap, DisplayRoot)

\* NewPositionConfig: a single leaf holding the main radar scope; the wm
\* struct is zero-valued.
Init ==
    /\ heap = [n \in Nodes |-> IF n = 1
                               THEN DisplayNode(1, SplitLine(0, SplitAxisNone), NIL, NIL)
                               ELSE ZeroNode]
    /\ paneKind = [p \in Panes |-> IF p = 1 THEN RootKind ELSE "free"]
    /\ DisplayRoot = 1
    /\ editorBackupRoot = NIL
    /\ showConfigEditor = FALSE
    /\ paneFirstPick = NIL
    /\ handlePanePick = NoHandler
    /\ active = ""
    /\ paneCreatePrompt = ""
    /\ paneConfigHelpText = ""
    /\ fullScreenDisplayNode = NIL
    /\ crashed = FALSE
    /\ lastOp = [op |-> "Init", fn |-> "", pane |-> NIL, was |-> NoEdit,
                 nodeMap |-> [n \in Nodes |-> IF n = 1 THEN 1 ELSE NIL],
                 paneMap |-> [p \in Panes |-> IF p = 1 THEN 1 ELSE NIL]]
    /\ entryShape = NoShape
    /\ frames = 0
    /\ edited = FALSE
    /\ hit = NoHit
    /\ keyboardFocusPane = NIL
    /\ keyboardFocusStack = <<>>
    /\ statusBarHasFocus = FALSE
    /\ mouseConsumerOverride = NIL
    /\ activeCommand = FALSE
    /\ mouseDown = ""
    /\ frameLog = NoFrame
    /\ sb = MakeStatusBar
    /\ selectedAircraft = NoAircraft
    /\ sbLog = NoKey

\* The program is running and the run is still being followed.
Running == ~crashed /\ frames < MaxFrames

\* The layout editor is opened: the hierarchy is duplicated into the backup.
EnterEditMode ==
    /\ Running
    /\ ~showConfigEditor
    /\ Room(Cardinality(Reach(heap, DisplayRoot)), LeafCount(heap, DisplayRoot))
    /\ LET s1 == Duplicate(Store, DisplayRoot)
       IN  Commit(Raw(s1, DisplayRoot, s1.ret, fullScreenDisplayNode,
                      paneFirstPick, handlePanePick), "EnterEdit", "", NIL)
    /\ showConfigEditor' = TRUE
    /\ entryShape' = Shape(heap, DisplayRoot)
    /\ UNCHANGED <<active, paneCreatePrompt, paneConfigHelpText, crashed>>

\* ModalButtonSet.Draw that leaves wm.paneFirstPick alone when a button is
\* made active.
PressButtonKeepFirstPick(name) ==
    /\ Running
    /\ showConfigEditor
    /\ Show(name)
    /\ IF active = name
       THEN /\ active' = ""
            /\ Commit(Raw(Store, DisplayRoot, editorBackupRoot, fullScreenDisplayNode,
                          paneFirstPick, NoHandler), "Button", name, NIL)
            /\ UNCHANGED paneConfigHelpText
       ELSE /\ active' = name
            /\ paneConfigHelpText' = ButtonHelpText(name)
            /\ Commit(Raw(Store, DisplayRoot, editorBackupRoot, fullScreenDisplayNode,
                          paneFirstPick, Handler(name, NIL)), "Button", name, NIL)
    /\ UNCHANGED <<showConfigEditor, paneCreatePrompt, crashed, entryShape>>

\* ModalButtonSet.Draw in a frame in which the user clicks the button `name`.
PressButton(name) ==
    /\ Running
    /\ showConfigEditor
    /\ Show(name)
    /\ IF active = name
       THEN /\ active' = ""
            /\ Commit(Raw(Store, DisplayRoot, editorBackupRoot, fullScreenDisplayNode,
                          paneFirstPick, NoHandler), "Button", name, NIL)
            /\ UNCHANGED paneConfigHelpText
       ELSE /\ active' = name
            /\ paneConfigHelpText' = ButtonHelpText(name)
            /\ Commit(Raw(Store, DisplayRoot, editorBackupRoot, fullScreenDisplayNode,
                          NIL, Handler(name, NIL)), "Button", name, NIL)
    /\ UNCHANGED <<showConfigEditor, paneCreatePrompt, crashed, entryShape>>

\* wmDrawConfigEditor in a frame in which an entry of "Create New..." is selected.
SelectCreateNew(kind) ==
    /\ Running
    /\ showConfigEditor
    /\ Room(0, 1)
    /\ LET s1 == NewPane(Store, kind)
       IN  Commit(Raw(s1, DisplayRoot, editorBackupRoot, fullScreenDisplayNode,
                      paneFirstPick, Handler("setPicked", s1.ret)), "CreateNew", kind, NIL)
    /\ paneCreatePrompt' = CreatePrompt(kind)
    /\ paneConfigHelpText' = "Select location for new " \o CreatePrompt(kind) \o " window"
    /\ UNCHANGED <<showConfigEditor, active, crashed, entryShape>>

\* "Cancel" without the call of wm.configButtons.Clear().
CancelKeepActive ==
    /\ Running
    /\ showConfigEditor
    /\ handlePanePick # NoHandler
    /\ Commit(Raw(Store, DisplayRoot, editorBackupRoot, fullScreenDisplayNode,
                  NIL, NoHandler), "Cancel", "", NIL)
    /\ paneConfigHelpText' = ""
    /\ UNCHANGED <<showConfigEditor, active, paneCreatePrompt, crashed, entryShape>>

\* wmDrawConfigEditor in a frame in which "Cancel" is clicked.
Cancel ==
    /\ Running
    /\ showConfigEditor
    /\ handlePanePick # NoHandler
    /\ Commit(Raw(Store, DisplayRoot, editorBackupRoot, fullScreenDisplayNode,
                  NIL, NoHandler), "Cancel", "", NIL)
    /\ paneConfigHelpText' = ""
    /\ active' = ""
    /\ UNCHANGED <<showConfigEditor, paneCreatePrompt, crashed, entryShape>>

\* wmDrawConfigEditor in a frame in which "Save" is clicked.
Save ==
    /\ Running
    /\ showConfigEditor
    /\ showConfigEditor' = FALSE
    /\ paneConfigHelpText' = ""
    /\ Commit(Raw(Store, DisplayRoot, NIL, fullScreenDisplayNode,
                  paneFirstPick, handlePanePick), "Save", "", NIL)
    /\ entryShape' = NoShape
    /\ UNCHANGED <<active, paneCreatePrompt, crashed>>

\* wmDrawConfigEditor in a frame in which "Revert" is clicked.
Revert ==
    /\ Running
    /\ showConfigEditor
    /\ showConfigEditor' = FALSE
    /\ paneConfigHelpText' = ""
    /\ Commit(Raw(Store, editorBackupRoot, NIL, fullScreenDisplayNode,
                  paneFirstPick, handlePanePick), "Revert", "", NIL)
    /\ entryShape' = NoShape
    /\ UNCHANGED <<active, paneCreatePrompt, crashed>>

\* The bound on the size of the tree: a split is picked only while the
\* tree has fewer than MaxLeaves leaves.
PickInBounds ==
    /\ handlePanePick.fn \in {"Split Horizontally", "Split Vertically"}
           => LeafCount(heap, DisplayRoot) < MaxLeaves
    /\ Room(2, 1)

\* wmDrawPanes in a frame with a primary click on `pane` while a pick is pending.
PickPane(pane) ==
    /\ Running
    /\ handlePanePick # NoHandler
    /\ pane \in FindPaneForMouse(heap, ViewRoot)
    /\ pane # NIL
    /\ PickInBounds
    /\ LET out == InvokeHandler(pane)
           done == out.result /\ ~out.panic
       IN  /\ crashed' = out.panic
           /\ active' = IF done /\ handlePanePick.fn \in ButtonNames THEN "" ELSE active
           /\ paneCreatePrompt' = out.paneCreatePrompt
           /\ paneConfigHelpText' = out.paneConfigHelpText
           /\ Commit(Raw(out.st, DisplayRoot, editorBackupRoot, fullScreenDisplayNode,
                         out.paneFirstPick, IF done THEN NoHandler ELSE handlePanePick),
                     "Pick", handlePanePick.fn, pane)
    /\ UNCHANGED <<showConfigEditor, entryShape>>

\* wmDrawPanes in a frame in which control-F is pressed with the mouse over
\* `mousePane` (a pane, a split line, or nothing).
ControlF(mousePane) ==
    /\ Running
    /\ mousePane \in FindPaneForMouse(heap, ViewRoot) \cup {NIL, SPLITLINE}
    /\ LET node == IF fullScreenDisplayNode = NIL
                   THEN IF mousePane # SPLITLINE /\ mousePane # NIL
                        THEN NodeForPane(heap, DisplayRoot, mousePane)
                        ELSE fullScreenDisplayNode
                   ELSE NIL
       IN  Commit(Raw(Store, DisplayRoot, editorBackupRoot, node,
                      paneFirstPick, handlePanePick), "ControlF", "", mousePane)
    /\ UNCHANGED <<showConfigEditor, active, paneCreatePrompt, paneConfigHelpText,
                   crashed, entryShape>>

\* A drag that does not clamp the new position.
DragSplitLineNoClamp(d, delta) ==
    /\ Running
    /\ d \in InteriorNodes(heap, ViewRoot)
    /\ Commit(Raw([Store EXCEPT !.heap[d].SplitLine.Pos = @ + delta],
                  DisplayRoot, editorBackupRoot, fullScreenDisplayNode,
                  paneFirstPick, handlePanePick), "Drag", "", NIL)
    /\ UNCHANGED <<showConfigEditor, active, paneCreatePrompt, paneConfigHelpText,
                   crashed, entryShape>>

\* SplitLine.Draw for the split line of node d while the secondary button
\* drags it by `delta` hundredths of the parent extent.
DragSplitLine(d, delta) ==
    /\ Running
    /\ d \in InteriorNodes(heap, ViewRoot)
    /\ Commit(Raw([Store EXCEPT !.heap[d].SplitLine.Pos = clamp(@ + delta, PosMin, PosMax)],
                  DisplayRoot, editorBackupRoot, fullScreenDisplayNode,
                  paneFirstPick, handlePanePick), "Drag", "", NIL)
    /\ UNCHANGED <<showConfigEditor, active, paneCreatePrompt, paneConfigHelpText,
                   crashed, entryShape>>

Next ==
    \/ EnterEditMode
    \/ \E name \in ButtonNames : PressButton(name)
    \/ \E kind \in CreateKinds : SelectCreateNew(kind)
    \/ Cancel
    \/ Save
    \/ Revert
    \/ \E pane \in Panes : PickPane(pane)
    \/ \E mousePane \in Panes \cup {NIL, SPLITLINE} : ControlF(mousePane)
    \/ \E d \in Nodes, delta \in DragDeltas : DragSplitLine(d, delta)

Spec == Init /\ [][Next]_vars

-----------------------------------------------------------------------------
\* Hit testing as a function of the hierarchy, the extent and the mouse
\* position: HitSpec starts from any hierarchy that splits and drags build
\* and makes one hit test.

\* Largest coordinates of the display extents that are tried.
MaxX == 12
MaxY == 7

\* Split-line positions of the hierarchies that are tried.
HitPositions == {PosMin, PosHalf, PosMax}

\* The display extents that are tried: one with room for every pane, one so
\* small that split-line strips reach beyond their parent's extent.
HitExtents == {Extent2D(0, 0, MaxX, MaxY), Extent2D(1, 1, 4, 3)}

\* The mouse positions that are tried: the extent and a margin around it.
HitPoints == (-1 .. MaxX + 1) \X (-1 .. MaxY + 1)

\* The shapes of the hierarchies with n leaves.
RECURSIVE ShapesOf(_)
ShapesOf(n) ==
    IF n = 1 THEN {<<"leaf">>}
    ELSE UNION {{<<"split", axis, pos, s0, s1>> :
                     axis \in {SplitAxisX, SplitAxisY}, pos \in HitPositions,
                     s0 \in ShapesOf(k), s1 \in ShapesOf(n - k)} : k \in 1 .. n - 1}

\* A hierarchy of the given shape, as a chain of splits builds it.
RECURSIVE BuildTree(_, _)
BuildTree(st, shape) ==
    IF shape[1] = "leaf"
    THEN LET s1 == NewPane(st, "EmptyPane")
         IN  NewDisplayNode(s1, DisplayNode(s1.ret, SplitLine(0, SplitAxisNone), NIL, NIL))
    ELSE LET s1 == BuildTree(st, shape[4])
             s2 == BuildTree(s1, shape[5])
         IN  NewDisplayNode(s2, DisplayNode(NIL, SplitLine(shape[3], shape[2]),
                                            s1.ret, s2.ret))

\* The state Init describes with nothing allocated yet.
EmptyStore ==
    [heap |-> [n \in Nodes |-> ZeroNode], kind |-> [p \in Panes |-> "free"],
     usedN |-> {}, usedP |-> {}, ret |-> NIL]

\* The program with the editor closed and a hierarchy of some shape.
HitInit ==
    \E n \in 1 .. MaxLeaves : \E shape \in ShapesOf(n) :
        LET b == BuildTree(EmptyStore, shape)
            c == Canon(Raw(b, b.ret, NIL, NIL, NIL, NoHandler))
        IN  /\ heap = c.heap
            /\ paneKind = c.kind
            /\ DisplayRoot = c.DisplayRoot
            /\ editorBackupRoot = NIL
            /\ showConfigEditor = FALSE
            /\ paneFirstPick = NIL
            /\ handlePanePick = NoHandler
            /\ active = ""
            /\ paneCreatePrompt = ""
            /\ paneConfigHelpText = ""
            /\ fullScreenDisplayNode = NIL
            /\ crashed = FALSE
            /\ lastOp = [op |-> "Init", fn |-> "", pane |-> NIL, was |-> NoEdit,
                         nodeMap |-> c.nodeMap, paneMap |-> c.paneMap]
            /\ entryShape = NoShape
            /\ frames = 0
            /\ edited = FALSE
            /\ hit = NoHit
            /\ keyboardFocusPane = NIL
            /\ keyboardFocusStack = <<>>
            /\ statusBarHasFocus = FALSE
            /\ mouseConsumerOverride = NIL
            /\ activeCommand = FALSE
            /\ mouseDown = ""
            /\ frameLog = NoFrame
            /\ sb = MakeStatusBar
            /\ selectedAircraft = NoAircraft
            /\ sbLog = NoKey

\* wmDrawPanes finds the pane under the mouse position p and then visits
\* the panes with their bounds, both for the display extent e.
HitTest(e, p) ==
    /\ ~hit.done
    /\ hit' = [done |-> TRUE, displayExtent |-> e, p |-> p,
               mousePane |-> FindPaneForMouseAt(heap, DisplayRoot, e, p),
               visited |-> VisitPanesWithBounds(heap, DisplayRoot, e, e)]
    /\ UNCHANGED <<heap, paneKind, DisplayRoot, editorBackupRoot, showConfigEditor,
                   paneFirstPick, handlePanePick, active, paneCreatePrompt,
                   paneConfigHelpText, fullScreenDisplayNode, crashed, lastOp,
                   entryShape, frames, edited, routing, console>>

HitNext == \E e \in HitExtents, p \in HitPoints : HitTest(e, p)

HitSpec == HitInit /\ [][HitNext]_vars

-----------------------------------------------------------------------------
\* The split helpers of DisplayNode, called on a leaf of a hierarchy of some
\* shape with a new leaf as the second child.

\* DisplayNode.SplitX(x, newChild): the node it returns.
SplitX(d, x, newChild) == DisplayNode(NIL, SplitLine(x, SplitAxisX), d, newChild)

\* DisplayNode.SplitY(y, newChild): the node it returns.
SplitY(d, y, newChild) == DisplayNode(NIL, SplitLine(y, SplitAxisX), d, newChild)

\* d.SplitX(pos, newChild) or d.SplitY(pos, newChild) is called for a leaf d
\* and a new leaf holding an EmptyPane; the node returned is allocated and
\* the call is recorded.
CallSplit(fn, d, pos) ==
    /\ lastOp.op = "Init"
    /\ d \in Reach(heap, DisplayRoot)
    /\ heap[d].SplitLine.Axis = SplitAxisNone
    /\ LET s1 == NewPane(Store, "EmptyPane")
           s2 == NewDisplayNode(s1, DisplayNode(s1.ret, SplitLine(0, SplitAxisNone), NIL, NIL))
           newChild == s2.ret
           s3 == NewDisplayNode(s2, IF fn = "SplitX" THEN SplitX(d, pos, newChild)
                                    ELSE SplitY(d, pos, newChild))
       IN  /\ heap' = s3.heap
           /\ paneKind' = s3.kind
           /\ lastOp' = [op |-> fn, fn |-> "", pane |-> heap[d].Pane, was |-> EditState,
                         nodeMap |-> lastOp.nodeMap, paneMap |-> lastOp.paneMap,
                         d |-> d, pos |-> pos, newChild |-> newChild, ret |-> s3.ret]
    /\ UNCHANGED <<DisplayRoot, editorBackupRoot, showConfigEditor, paneFirstPick,
                   handlePanePick, active, paneCreatePrompt, paneConfigHelpText,
                   fullScreenDisplayNode, crashed, entryShape, frames, edited, hit,
                   routing, console>>

SplitNext == \E fn \in {"SplitX", "SplitY"}, d \in Nodes, pos \in HitPositions : CallSplit(fn, d, pos)

SplitSpec == HitInit /\ [][SplitNext]_vars

-----------------------------------------------------------------------------
\* Focus and input routing: wmDrawPanes as a whole frame, the status bar's
\* key handling, the focus hand-off functions and the mouse override.

\* Number of frames that FrameSpec follows a run for.
MaxInputs == 3

\* Largest depth of the focus hand-off stack that is followed.
MaxStack == 2

\* A reference to a split line whose node no tree of the program holds.
GONE == -3

\* A Pane value that is a split line (&d.SplitLine of some node).
IsSplitLine(ref) == ref <= SplitLineRef(1)

\* Pane.CanTakeKeyboardFocus by pane type (SplitLine: false).
CanTakeKeyboardFocus(kind) == kind \in {"CLIPane", "RadarScopePane"}

\* paneDisplayExtent: the area left for drawing panes.
DisplayExtent == Extent2D(0, 0, MaxX, MaxY)

\* The mouse positions that are tried: one outside the display extent and
\* some over the panes and split lines of the layouts.
Outside == <<-1, -1>>
FramePoints == {Outside, <<1, 1>>, <<6, 1>>, <<9, 1>>, <<9, 3>>, <<9, 6>>}

\* The focus state the hand-off functions work on.
FocusState(focus, stack) == [focus |-> focus, stack |-> stack]

\* wmTakeKeyboardFocus(pane, isTransient)
wmTakeKeyboardFocus(fs, pane, isTransient) ==
    IF fs.focus = pane
    THEN fs
    ELSE LET pushed == IF isTransient /\ fs.focus # NIL
                       THEN Append(fs.stack, fs.focus)
                       ELSE fs.stack
         IN  FocusState(pane, IF ~isTransient THEN <<>> ELSE pushed)

\* wmReleaseKeyboardFocus()
wmReleaseKeyboardFocus(fs) ==
    LET n == Len(fs.stack)
    IN  IF n > 0
        THEN FocusState(fs.stack[n], SubSeq(fs.stack, 1, n - 1))
        ELSE fs

\* wmPaneIsPresent(pane)
wmPaneIsPresent(h, root, pane) ==
    LET v == VisitPanes(h, root)
    IN  \E i \in 1 .. Len(v) : v[i] = pane

\* The default focus when the first matching pane of the walk is taken.
DefaultFocusFirst(h, kind, root) ==
    LET v == VisitPanes(h, root)
        cli == {i \in 1 .. Len(v) : v[i] \in Panes /\ kind[v[i]] = "CLIPane"}
        any == {i \in 1 .. Len(v) : v[i] \in Panes /\ CanTakeKeyboardFocus(kind[v[i]])}
        First(S) == v[CHOOSE i \in S : \A j \in S : i <= j]
    IN  IF cli # {} THEN First(cli) ELSE IF any # {} THEN First(any) ELSE NIL

\* The focus wmDrawPanes picks when there is none: each CLIPane the walk
\* meets is assigned in turn, and if there is none each pane that can take
\* keyboard events is, so the last one met is the one that stays.
DefaultFocus(h, kind, root) ==
    LET v == VisitPanes(h, root)
        cli == {i \in 1 .. Len(v) : v[i] \in Panes /\ kind[v[i]] = "CLIPane"}
        any == {i \in 1 .. Len(v) : v[i] \in Panes /\ CanTakeKeyboardFocus(kind[v[i]])}
        Last(S) == v[CHOOSE i \in S : \A j \in S : j <= i]
    IN  IF cli # {} THEN Last(cli) ELSE IF any # {} THEN Last(any) ELSE NIL

\* The start of wmDrawPanes: a focus that is not in the hierarchy is
\* dropped, and a default is picked if there is no focus.
FocusFixup(h, kind, root, focus) ==
    LET kept == IF wmPaneIsPresent(h, root, focus) THEN focus ELSE NIL
    IN  IF kept = NIL THEN DefaultFocus(h, kind, root) ELSE kept

\* The keys a frame's keyboard state can hold for the status bar.
Keys == {"FKey", "FKeyUnbound", "Escape", "Enter", "EnterRejected", "Text"}

\* StatusBar.Draw: whether a command is active once the frame's keys have
\* been processed, which is the value it returns.
StatusBarDraw(command, key) ==
    CASE key = "FKey" -> TRUE
      [] key = "Escape" -> FALSE
      [] key = "Enter" -> FALSE
      [] OTHER -> command

\* control-F that maximizes but never goes back.
ToggleFullScreenSetOnly(h, root, fullScreen, mousePane) ==
    IF ~IsSplitLine(mousePane) /\ mousePane # NIL
    THEN NodeForPane(h, root, mousePane)
    ELSE fullScreen

\* control-F with the mouse over mousePane: a pane is maximized, or the
\* maximized node is dropped.
ToggleFullScreen(h, root, fullScreen, mousePane) ==
    IF fullScreen = NIL
    THEN IF ~IsSplitLine(mousePane) /\ mousePane # NIL
         THEN NodeForPane(h, root, mousePane)
         ELSE fullScreen
    ELSE NIL

\* The pick dispatch without its test for split lines.
PickDispatchAnyTarget(handler, clicked, mousePane) ==
    /\ handler # NoHandler
    /\ clicked = "primary"
    /\ mousePane # NIL

\* Whether wmDrawPanes calls wm.handlePanePick in this frame: a callback is
\* registered, the primary button was clicked, and the mouse is in a pane
\* that is not a split line.
PickDispatch(handler, clicked, mousePane) ==
    /\ handler # NoHandler
    /\ clicked = "primary"
    /\ mousePane # NIL
    /\ ~IsSplitLine(mousePane)

\* wm.mouseConsumerOverride once the frame's buttons have been looked at.
SetMouseOverride(override, capture, isDragging, isClicked, mousePane) ==
    IF ~capture /\ (isDragging \/ isClicked) /\ override = NIL
    THEN mousePane
    ELSE IF capture THEN NIL ELSE override

\* ownsMouse with the override left out of it.
OwnsMouseHover(override, capture, pane, paneExtent, mousePos) ==
    ~capture /\ Inside(paneExtent, mousePos)

\* ownsMouse: whether the pane being visited is given the mouse.
OwnsMouse(override, capture, pane, paneExtent, mousePos) ==
    \/ override = pane
    \/ /\ override = NIL
       /\ ~capture
       /\ Inside(paneExtent, mousePos)

\* wm.mouseConsumerOverride after the traversal.
ClearMouseOverride(override, isDragging, isClicked) ==
    IF ~isDragging /\ ~isClicked THEN NIL ELSE override

\* The input of a frame.
NoCall == [at |-> 0, fn |-> "none", isTransient |-> FALSE]
NoInput == [mousePos |-> Outside, clicked |-> "", dragging |-> FALSE, delta |-> 0,
            capture |-> FALSE, controlF |-> FALSE, key |-> "", call |-> NoCall,
            widget |-> ""]

\* What the widgets of the config editor leave behind.
Effect(raw, show, act, prompt, help, entry) ==
    [raw |-> raw, showConfigEditor |-> show, active |-> act,
     paneCreatePrompt |-> prompt, paneConfigHelpText |-> help, entryShape |-> entry]

\* wmDrawConfigEditor (and the menu item that opens the editor) in a frame in
\* which the given widget is clicked.
EditorEffect(widget) ==
    CASE widget \in ButtonNames ->
           IF active = widget
           THEN Effect(Raw(Store, DisplayRoot, editorBackupRoot, fullScreenDisplayNode,
                           paneFirstPick, NoHandler),
                       showConfigEditor, "", paneCreatePrompt, paneConfigHelpText, entryShape)
           ELSE Effect(Raw(Store, DisplayRoot, editorBackupRoot, fullScreenDisplayNode,
                           NIL, Handler(widget, NIL)),
                       showConfigEditor, widget, paneCreatePrompt, ButtonHelpText(widget),
                       entryShape)
      [] widget \in CreateKinds ->
           LET s1 == NewPane(Store, widget)
           IN  Effect(Raw(s1, DisplayRoot, editorBackupRoot, fullScreenDisplayNode,
                          paneFirstPick, Handler("setPicked", s1.ret)),
                      showConfigEditor, active, CreatePrompt(widget),
                      "Select location for new " \o CreatePrompt(widget) \o " window",
                      entryShape)
      [] widget = "Cancel" ->
           Effect(Raw(Store, DisplayRoot, editorBackupRoot, fullScreenDisplayNode,
                      NIL, NoHandler),
                  showConfigEditor, "", paneCreatePrompt, "", entryShape)
      [] widget = "Save" ->
           Effect(Raw(Store, DisplayRoot, NIL, fullScreenDisplayNode,
                      paneFirstPick, handlePanePick),
                  FALSE, active, paneCreatePrompt, "", NoShape)
      [] widget = "Revert" ->
           Effect(Raw(Store, editorBackupRoot, NIL, fullScreenDisplayNode,
                      paneFirstPick, handlePanePick),
                  FALSE, active, paneCreatePrompt, "", NoShape)
      [] widget = "EnterEdit" ->
           LET s1 == Duplicate(Store, DisplayRoot)
           IN  Effect(Raw(s1, DisplayRoot, s1.ret, fullScreenDisplayNode,
                          paneFirstPick, handlePanePick),
                      TRUE, active, paneCreatePrompt, paneConfigHelpText,
                      Shape(heap, DisplayRoot))

\* A reference after the renumbering c.
RefAfter(c, x) ==
    IF x \in Panes THEN c.paneMap[x]
    ELSE IF IsSplitLine(x)
         THEN LET n == 0 - x - 100
              IN  IF c.nodeMap[n] = NIL THEN GONE ELSE SplitLineRef(c.nodeMap[n])
         ELSE x

\* wmDrawPanes for one frame with the input `in`, followed by what the
\* widget clicked in the config editor does.
DrawFrame(input) ==
    \E in \in {input} :
    \* the keyboard focus is checked and defaulted
    \E focus0 \in {FocusFixup(heap, paneKind, DisplayRoot, keyboardFocusPane)} :
    \* the pane the mouse is in
    \E mousePane \in {FindPaneForMouseAt(heap, ViewRoot, DisplayExtent, in.mousePos)} :
    \* control-F
    \E fullScreen1 \in
        {IF in.controlF
         THEN ToggleFullScreen(heap, DisplayRoot, fullScreenDisplayNode, mousePane)
         ELSE fullScreenDisplayNode} :
    \* a pending pick is told about a primary click in a pane
    \E picks \in {PickDispatch(handlePanePick, in.clicked, mousePane)} :
    \E out \in
        {IF picks
         THEN InvokeHandler(mousePane)
         ELSE Outcome(Store, paneFirstPick, paneCreatePrompt, paneConfigHelpText,
                      FALSE, FALSE)} :
    \* the mouse override
    \E isDragging \in {in.dragging}, isClicked \in {in.clicked # ""} :
    \E override1 \in
        {SetMouseOverride(mouseConsumerOverride, in.capture, isDragging, isClicked,
                          mousePane)} :
    \* wmDrawStatusBar
    \E hasFocus \in {StatusBarDraw(activeCommand, in.key)} :
    \* the traversal
    \E root \in {IF fullScreen1 \in Nodes THEN fullScreen1 ELSE DisplayRoot} :
    \E vis \in {VisitPanesWithBounds(out.st.heap, root, DisplayExtent, DisplayExtent)} :
    \E fs0 \in {FocusState(focus0, keyboardFocusStack)} :
    \E fs1 \in
        {CASE in.call.fn = "take" ->
                wmTakeKeyboardFocus(fs0, vis[in.call.at].pane, in.call.isTransient)
           [] in.call.fn = "release" -> wmReleaseKeyboardFocus(fs0)
           [] OTHER -> fs0} :
    \E keyboard \in
        {{i \in 1 .. Len(vis) :
             /\ vis[i].pane # NIL
             /\ ~hasFocus
             /\ vis[i].pane = (IF in.call.at # 0 /\ i > in.call.at
                               THEN fs1.focus ELSE fs0.focus)}} :
    \E mouse \in
        {{i \in 1 .. Len(vis) :
             /\ vis[i].pane # NIL
             /\ OwnsMouse(override1, in.capture, vis[i].pane, vis[i].extent, in.mousePos)}} :
    \* SplitLine.Draw of the split lines that were given the mouse
    \E dragged \in
        {IF in.dragging /\ mouseDown = "secondary"
         THEN {n \in Nodes : \E i \in mouse : vis[i].pane = SplitLineRef(n)}
         ELSE {}} :
    \E heap2 \in
        {[n \in Nodes |->
             IF n \in dragged
             THEN [out.st.heap[n] EXCEPT
                      !.SplitLine.Pos = clamp(@ + in.delta, PosMin, PosMax)]
             ELSE out.st.heap[n]]} :
    \* the override is cleared once no button is down
    \E override2 \in {ClearMouseOverride(override1, isDragging, isClicked)} :
    \* the config editor
    \E done \in {picks /\ out.result /\ ~out.panic} :
    \E e \in
        {IF in.widget = ""
         THEN Effect(Raw([out.st EXCEPT !.heap = heap2], DisplayRoot, editorBackupRoot,
                         fullScreen1, out.paneFirstPick,
                         IF done THEN NoHandler ELSE handlePanePick),
                     showConfigEditor,
                     IF done /\ handlePanePick.fn \in ButtonNames THEN "" ELSE active,
                     out.paneCreatePrompt, out.paneConfigHelpText, entryShape)
         ELSE EditorEffect(in.widget)} :
    \E present \in {LeafPanes(out.st.heap, DisplayRoot)} :
    \E c \in
        {Canon([e.raw EXCEPT !.refs =
                   <<fs1.focus, override2, focus0, override1, mousePane,
                     mouseConsumerOverride, keyboardFocusPane>>
                   \o fs1.stack \o keyboardFocusStack
                   \o [i \in 1 .. Len(vis) |-> vis[i].pane]
                   \o VisitPanes(out.st.heap, DisplayRoot)])} :
    LET T(x) == RefAfter(c, x)
        TS(q) == [i \in 1 .. Len(q) |-> T(q[i])]
    IN  /\ heap' = c.heap
        /\ paneKind' = c.kind
        /\ DisplayRoot' = c.DisplayRoot
        /\ editorBackupRoot' = c.editorBackupRoot
        /\ fullScreenDisplayNode' = c.fullScreenDisplayNode
        /\ paneFirstPick' = c.paneFirstPick
        /\ handlePanePick' = c.handlePanePick
        /\ showConfigEditor' = e.showConfigEditor
        /\ active' = e.active
        /\ paneCreatePrompt' = e.paneCreatePrompt
        /\ paneConfigHelpText' = e.paneConfigHelpText
        /\ entryShape' = e.entryShape
        /\ crashed' = (out.panic \/ fullScreen1 = PANIC)
        /\ lastOp' = [op |-> "Frame", fn |-> IF picks THEN handlePanePick.fn ELSE in.widget,
                      pane |-> IF picks THEN mousePane ELSE NIL, was |-> EditState,
                      nodeMap |-> c.nodeMap, paneMap |-> c.paneMap]
        /\ frames' = frames + 1
        /\ edited' = (edited \/ Shape(c.heap, c.DisplayRoot) # Shape(heap, DisplayRoot))
        /\ keyboardFocusPane' = T(fs1.focus)
        /\ keyboardFocusStack' = TS(fs1.stack)
        /\ statusBarHasFocus' = hasFocus
        /\ mouseConsumerOverride' = T(override2)
        /\ activeCommand' = hasFocus
        /\ mouseDown' = IF in.clicked # "" THEN in.clicked
                        ELSE IF in.dragging THEN mouseDown ELSE ""
        /\ frameLog' = [drawn |-> TRUE,
                        input |-> [in EXCEPT !.call.at = 0],
                        mousePane |-> T(mousePane),
                        picked |-> picks,
                        commandBefore |-> activeCommand,
                        focusBefore |-> FocusState(T(keyboardFocusPane), TS(keyboardFocusStack)),
                        focusAtDispatch |-> T(focus0),
                        present |-> {T(x) : x \in present},
                        root |-> c.nodeMap[root],
                        caller |-> IF in.call.at = 0 THEN NIL ELSE T(vis[in.call.at].pane),
                        before |-> FocusState(T(fs0.focus), TS(fs0.stack)),
                        after |-> FocusState(T(fs1.focus), TS(fs1.stack)),
                        overrideBefore |-> T(mouseConsumerOverride),
                        overrideAtDispatch |-> T(override1),
                        visited |-> TS([i \in 1 .. Len(vis) |-> vis[i].pane]),
                        keyboard |-> keyboard,
                        mouse |-> mouse]
        /\ UNCHANGED <<hit, console>>

\* A frame is drawn while the program runs and the run is followed.
FrameRunning == ~crashed /\ frames < MaxInputs

\* A frame without input; the pointer rests at p, over the panes or (with
\* capture) over a window of the widget toolkit.  A button that was held
\* down has been released.
IdleFrame(p, capture) ==
    /\ FrameRunning
    /\ DrawFrame([NoInput EXCEPT !.mousePos = p, !.capture = capture])

\* A frame in which a mouse button is pressed at p, over the pane area.
ClickFrame(button, p) ==
    /\ FrameRunning
    /\ mouseDown = ""
    /\ handlePanePick # NoHandler /\ button = "primary" => PickInBounds
    /\ DrawFrame([NoInput EXCEPT !.mousePos = p, !.clicked = button, !.dragging = TRUE])

\* A frame in which the button that is down is still held, the pointer
\* having moved to p by delta.
HoldFrame(p, delta) ==
    /\ FrameRunning
    /\ mouseDown # ""
    /\ DrawFrame([NoInput EXCEPT !.mousePos = p, !.dragging = TRUE, !.delta = delta])

\* A frame in which control-F is pressed with the pointer at p.
ControlFFrame(p) ==
    /\ FrameRunning
    /\ DrawFrame([NoInput EXCEPT !.mousePos = p, !.controlF = TRUE])

\* A frame in which a key is pressed.
KeyFrame(key) ==
    /\ FrameRunning
    /\ key \in {"Enter", "EnterRejected", "Text"} => activeCommand
    /\ DrawFrame([NoInput EXCEPT !.key = key])

\* A frame in which the Draw method of the i-th pane visited calls
\* wmTakeKeyboardFocus for itself or wmReleaseKeyboardFocus.
PaneCallFrame(i, fn, isTransient) ==
    /\ FrameRunning
    /\ LET vis == VisitPanesWithBounds(heap, ViewRoot, DisplayExtent, DisplayExtent)
       IN  /\ i <= Len(vis)
           /\ vis[i].pane \in Panes
    /\ fn = "release" => ~isTransient
    /\ fn = "take" /\ isTransient => Len(keyboardFocusStack) < MaxStack
    /\ DrawFrame([NoInput EXCEPT !.call = [at |-> i, fn |-> fn, isTransient |-> isTransient]])

\* A frame in which a widget of the config editor is clicked.
EditorFrame(widget) ==
    /\ FrameRunning
    /\ showConfigEditor
    /\ mouseDown = ""
    /\ widget \in ButtonNames => Show(widget)
    /\ widget \in CreateKinds => Room(0, 1)
    /\ widget = "Cancel" => handlePanePick # NoHandler
    /\ DrawFrame([NoInput EXCEPT !.capture = TRUE, !.widget = widget])

\* A frame in which the layout editor is opened.
EnterEditFrame ==
    /\ FrameRunning
    /\ ~showConfigEditor
    /\ mouseDown = ""
    /\ Room(Cardinality(Reach(heap, DisplayRoot)), LeafCount(heap, DisplayRoot))
    /\ DrawFrame([NoInput EXCEPT !.capture = TRUE, !.widget = "EnterEdit"])

\* The layouts FrameSpec starts from: pane types at the leaves.
Leaf(kind) == <<"leaf", kind>>
FrameLayouts ==
    {Leaf("RadarScopePane"),
     <<"split", SplitAxisX, PosHalf, Leaf("CLIPane"), Leaf("RadarScopePane")>>,
     <<"split", SplitAxisX, PosHalf, Leaf("RadarScopePane"), Leaf("CLIPane")>>,
     <<"split", SplitAxisX, PosHalf, Leaf("EmptyPane"), Leaf("EmptyPane")>>,
     <<"split", SplitAxisX, PosHalf, Leaf("CLIPane"),
       <<"split", SplitAxisY, PosHalf, Leaf("CLIPane"), Leaf("EmptyPane")>>>>,
     <<"split", SplitAxisX, PosHalf, Leaf("RadarScopePane"),
       <<"split", SplitAxisY, PosHalf, Leaf("RadarScopePane"), Leaf("EmptyPane")>>>>}

\* A hierarchy with the given layout.
RECURSIVE BuildLayout(_, _)
BuildLayout(st, layout) ==
    IF layout[1] = "leaf"
    THEN LET s1 == NewPane(st, layout[2])
         IN  NewDisplayNode(s1, DisplayNode(s1.ret, SplitLine(0, SplitAxisNone), NIL, NIL))
    ELSE LET s1 == BuildLayout(st, layout[4])
             s2 == BuildLayout(s1, layout[5])
         IN  NewDisplayNode(s2, DisplayNode(NIL, SplitLine(layout[3], layout[2]),
                                            s1.ret, s2.ret))

\* The program with the editor closed, one of the layouts active and no
\* frame drawn yet.
FrameInit ==
    \E layout \in FrameLayouts :
        LET b == BuildLayout(EmptyStore, layout)
            c == Canon(Raw(b, b.ret, NIL, NIL, NIL, NoHandler))
        IN  /\ heap = c.heap
            /\ paneKind = c.kind
            /\ DisplayRoot = c.DisplayRoot
            /\ editorBackupRoot = NIL
            /\ showConfigEditor = FALSE
            /\ paneFirstPick = NIL
            /\ handlePanePick = NoHandler
            /\ active = ""
            /\ paneCreatePrompt = ""
            /\ paneConfigHelpText = ""
            /\ fullScreenDisplayNode = NIL
            /\ crashed = FALSE
            /\ lastOp = [op |-> "Init", fn |-> "", pane |-> NIL, was |-> NoEdit,
                         nodeMap |-> c.nodeMap, paneMap |-> c.paneMap]
            /\ entryShape = NoShape
            /\ frames = 0
            /\ edited = FALSE
            /\ hit = NoHit
            /\ keyboardFocusPane = NIL
            /\ keyboardFocusStack = <<>>
            /\ statusBarHasFocus = FALSE
            /\ mouseConsumerOverride = NIL
            /\ activeCommand = FALSE
            /\ mouseDown = ""
            /\ frameLog = NoFrame
            /\ sb = MakeStatusBar
            /\ selectedAircraft = NoAircraft
            /\ sbLog = NoKey

FrameNext ==
    \/ \E p \in FramePoints, capture \in BOOLEAN : IdleFrame(p, capture)
    \/ \E button \in {"primary", "secondary"}, p \in FramePoints : ClickFrame(button, p)
    \/ \E p \in FramePoints, delta \in DragDeltas : HoldFrame(p, delta)
    \/ \E p \in FramePoints : ControlFFrame(p)
    \/ \E key \in Keys : KeyFrame(key)
    \/ \E i \in 1 .. 2 * MaxLeaves - 1, fn \in {"take", "release"}, isTransient \in BOOLEAN :
           PaneCallFrame(i, fn, isTransient)
    \/ \E widget \in ButtonNames \cup CreateKinds \cup {"Cancel", "Save", "Revert"} :
           EditorFrame(widget)
    \/ EnterEditFrame

FrameSpec == FrameInit /\ [][FrameNext]_vars

-----------------------------------------------------------------------------
\* Pane picks by mouse: the frames of an edit session in which the only
\* input is a widget of the config editor or the primary mouse button.
\* PickSpec follows these further than FrameSpec follows all inputs.

\* Number of frames that PickSpec follows a run for.
MaxPickFrames == 6

PickRunning == ~crashed /\ frames < MaxPickFrames

\* A frame in which the layout editor is opened.
OpenEditorFrame ==
    /\ PickRunning
    /\ ~showConfigEditor
    /\ mouseDown = ""
    /\ Room(Cardinality(Reach(heap, DisplayRoot)), LeafCount(heap, DisplayRoot))
    /\ DrawFrame([NoInput EXCEPT !.capture = TRUE, !.widget = "EnterEdit"])

\* A frame in which a widget of the config editor is clicked.
WidgetFrame(widget) ==
    /\ PickRunning
    /\ showConfigEditor
    /\ mouseDown = ""
    /\ widget \in ButtonNames => Show(widget)
    /\ widget \in CreateKinds => Room(0, 1)
    /\ widget = "Cancel" => handlePanePick # NoHandler
    /\ DrawFrame([NoInput EXCEPT !.capture = TRUE, !.widget = widget])

\* A frame in which the primary button is pressed at p, over the pane area.
PressFrame(p) ==
    /\ PickRunning
    /\ mouseDown = ""
    /\ handlePanePick # NoHandler => PickInBounds
    /\ DrawFrame([NoInput EXCEPT !.mousePos = p, !.clicked = "primary", !.dragging = TRUE])

\* The frame in which the button is released, the pointer not having moved.
ReleaseFrame ==
    /\ PickRunning
    /\ mouseDown # ""
    /\ DrawFrame([NoInput EXCEPT !.mousePos = frameLog.input.mousePos])

PickNext ==
    \/ OpenEditorFrame
    \/ \E widget \in ButtonNames \cup CreateKinds \cup {"Cancel", "Save", "Revert"} :
           WidgetFrame(widget)
    \/ \E p \in FramePoints : PressFrame(p)
    \/ ReleaseFrame

PickSpec == FrameInit /\ [][PickNext]_vars

-----------------------------------------------------------------------------
\* Switching configurations: frames with focus calls, command keys, control-F
\* and mouse buttons, and GlobalConfig.MakeConfigActive between frames.

\* Number of steps that ConfigSpec follows a run for.
MaxConfigSteps == 4

ConfigRunning == ~crashed /\ frames < MaxConfigSteps

\* The hierarchies of the configurations that can be switched to.
ConfigLayouts ==
    {Leaf("RadarScopePane"),
     <<"split", SplitAxisX, PosHalf, Leaf("CLIPane"), Leaf("RadarScopePane")>>}

\* The inputs of a frame that ConfigSpec tries.
ConfigInputs ==
    {[NoInput EXCEPT !.mousePos = p] : p \in {<<1, 1>>, <<9, 1>>}}
      \cup {[NoInput EXCEPT !.mousePos = p, !.clicked = "primary", !.dragging = TRUE] :
                p \in {<<1, 1>>, <<9, 1>>}}
      \cup {[NoInput EXCEPT !.mousePos = p, !.controlF = TRUE] : p \in {<<1, 1>>, <<9, 1>>}}
      \cup {[NoInput EXCEPT !.key = key] : key \in {"FKey", "Escape"}}
      \cup {[NoInput EXCEPT !.call = [at |-> i, fn |-> fn, isTransient |-> isTransient]] :
                i \in 1 .. 2 * MaxLeaves - 1, fn \in {"take", "release"},
                isTransient \in BOOLEAN}

\* wmDrawPanes for a frame with one of these inputs.
ConfigFrame(input) ==
    /\ ConfigRunning
    /\ input.clicked # "" => mouseDown = ""
    /\ input.call.fn # "none" =>
          LET vis == VisitPanesWithBounds(heap, ViewRoot, DisplayExtent, DisplayExtent)
          IN  /\ input.call.at <= Len(vis)
              /\ vis[input.call.at].pane \in Panes
              /\ input.call.fn = "release" => ~input.call.isTransient
              /\ input.call.fn = "take" /\ input.call.isTransient =>
                    Len(keyboardFocusStack) < MaxStack
    /\ DrawFrame(input)

\* GlobalConfig.MakeConfigActive for a configuration with the given layout,
\* picked from a menu with no mouse button down: positionConfig becomes that
\* configuration and wmActivateNewConfig does its housekeeping.
ActivateNewConfig(layout) ==
    /\ ConfigRunning
    /\ mouseDown = ""
    /\ Room(3, 2)
    /\ LET b == BuildLayout(Store, layout)
           c == Canon([Raw(b, b.ret, editorBackupRoot, fullScreenDisplayNode,
                           paneFirstPick, handlePanePick)
                          EXCEPT !.refs = <<mouseConsumerOverride>> \o keyboardFocusStack])
       IN  /\ heap' = c.heap
           /\ paneKind' = c.kind
           /\ DisplayRoot' = c.DisplayRoot
           /\ editorBackupRoot' = c.editorBackupRoot
           /\ fullScreenDisplayNode' = c.fullScreenDisplayNode
           /\ paneFirstPick' = c.paneFirstPick
           /\ handlePanePick' = c.handlePanePick
           /\ keyboardFocusPane' = NIL
           /\ keyboardFocusStack' =
                 [i \in 1 .. Len(keyboardFocusStack) |-> RefAfter(c, keyboardFocusStack[i])]
           /\ mouseConsumerOverride' = RefAfter(c, mouseConsumerOverride)
           /\ lastOp' = [op |-> "ActivateNewConfig", fn |-> "", pane |-> NIL,
                         was |-> EditState, nodeMap |-> c.nodeMap, paneMap |-> c.paneMap]
           /\ frames' = frames + 1
           /\ frameLog' = NoFrame
    /\ UNCHANGED <<showConfigEditor, active, paneCreatePrompt, paneConfigHelpText,
                   crashed, entryShape, edited, hit, statusBarHasFocus, activeCommand,
                   mouseDown, console>>

ConfigNext ==
    \/ \E input \in ConfigInputs : ConfigFrame(input)
    \/ \E layout \in ConfigLayouts : ActivateNewConfig(layout)

ConfigSpec == FrameInit /\ [][ConfigNext]_vars

-----------------------------------------------------------------------------
\* The command entry of the status bar: StatusBar.Draw for one frame with
\* one input (a selection event, a key, or a result of the text edit field).

\* Text is a sequence of characters.
Callsigns == {<<"A", "1">>, <<"A", "2">>}

\* The aircraft that commands on tracked aircraft accept.
TrackedCallsigns == {<<"A", "1">>}

\* What the user can have typed into a field.
Texts == {<<>>, <<"A">>, <<"A", "1">>, <<"A", "2">>, <<"a">>}

\* The f-key commands that keys are bound to, and the types of their
\* arguments (FKeyCommand.ArgTypes).  "Aircraft" and "Tracked" are both an
\* AircraftCommandArg; the second takes tracked aircraft only.
Commands == {"track", "drop", "scratchpad", "pointout", "handoff", "beacon", "amend"}
ArgTypes(cmd) ==
    CASE cmd = "track" -> <<"Aircraft">>
      [] cmd = "drop" -> <<"Tracked">>
      [] cmd = "scratchpad" -> <<"Tracked", "Text">>
      [] cmd = "pointout" -> <<"Text", "Aircraft">>
      [] cmd = "handoff" -> <<"Tracked", "Aircraft">>
      [] cmd = "beacon" -> <<>>
      [] cmd = "amend" -> <<"Tracked", "Text", "Text">>

IsAircraftCommandArg(ty) == ty \in {"Aircraft", "Tracked"}

\* strings.ToUpper
ToUpper(t) == [i \in 1 .. Len(t) |-> IF t[i] = "a" THEN "A" ELSE t[i]]

IsPrefix(t, c) == Len(t) <= Len(c) /\ SubSeq(c, 1, Len(t)) = t

\* CommandArg.Expand: the completion of the text, or an error.
Expanded(value) == [ok |-> TRUE, value |-> value, err |-> ""]
ExpandError(err) == [ok |-> FALSE, value |-> <<>>, err |-> err]
Expand(ty, t) ==
    IF IsAircraftCommandArg(ty)
    THEN LET known == IF ty = "Tracked" THEN TrackedCallsigns ELSE Callsigns
             matches == {c \in known : t # <<>> /\ IsPrefix(t, c)}
         IN  IF Cardinality(matches) = 1
             THEN Expanded(CHOOSE c \in matches : TRUE)
             ELSE IF matches = {} THEN ExpandError("No matching aircraft")
             ELSE ExpandError("Multiple matching aircraft")
    ELSE IF t # <<>> THEN Expanded(t) ELSE ExpandError("Missing")

\* make([]string, n)
MakeStrings(n, zero) == [i \in 1 .. n |-> zero]

\* The argument slots setSelectedAircraft may write: those of an
\* AircraftCommandArg, and with mustMatch only those the callsign expands
\* to itself for.
AircraftSlots(s, callsign, mustMatch) ==
    LET tys == ArgTypes(s.activeCommand)
    IN  {i \in 1 .. Len(tys) :
            /\ IsAircraftCommandArg(tys[i])
            /\ mustMatch => LET e == Expand(tys[i], callsign)
                            IN  e.ok /\ e.value = callsign}

\* setSelectedAircraft that checks the argument's requirements whatever
\* mustMatch is.
setSelectedAircraftChecked(s, callsign, mustMatch) ==
    LET slots == AircraftSlots(s, callsign, TRUE)
    IN  IF slots = {} THEN s
        ELSE LET i == CHOOSE i \in slots : \A j \in slots : i <= j
                 n == Len(s.commandArgs)
                 s1 == [s EXCEPT !.commandArgs[i] = callsign, !.commandArgErrors[i] = ""]
             IN  IF s.inputFocus = i - 1
                 THEN [s1 EXCEPT !.inputFocus = (s.inputFocus + 1) % n, !.inputCursor = 0]
                 ELSE s1

\* setSelectedAircraft that moves the focus on and leaves the cursor where
\* it was.
setSelectedAircraftKeepCursor(s, callsign, mustMatch) ==
    LET slots == AircraftSlots(s, callsign, mustMatch)
    IN  IF slots = {} THEN s
        ELSE LET i == CHOOSE i \in slots : \A j \in slots : i <= j
                 n == Len(s.commandArgs)
                 s1 == [s EXCEPT !.commandArgs[i] = callsign, !.commandArgErrors[i] = ""]
             IN  IF s.inputFocus = i - 1
                 THEN [s1 EXCEPT !.inputFocus = (s.inputFocus + 1) % n]
                 ELSE s1

\* StatusBar.setSelectedAircraft(callsign, mustMatch); slot i is index i - 1.
setSelectedAircraft(s, callsign, mustMatch) ==
    LET slots == AircraftSlots(s, callsign, mustMatch)
    IN  IF slots = {} THEN s
        ELSE LET i == CHOOSE i \in slots : \A j \in slots : i <= j
                 n == Len(s.commandArgs)
                 s1 == [s EXCEPT !.commandArgs[i] = callsign, !.commandArgErrors[i] = ""]
             IN  IF s.inputFocus = i - 1
                 THEN [s1 EXCEPT !.inputFocus = (s.inputFocus + 1) % n, !.inputCursor = 0]
                 ELSE s1

\* StatusBar.processEvents for a SelectedAircraftEvent.
processEvents(s, callsign) ==
    IF s.activeCommand # NoCommand
    THEN setSelectedAircraft(s, callsign, FALSE)
    ELSE s

\* The f-key branch of processKeys that sets up the arguments and leaves
\* the selected aircraft out.
processFKeyNoAircraft(s, cmd, selected) ==
    LET n == Len(ArgTypes(cmd))
    IN  [activeCommand |-> cmd, inputFocus |-> 0, inputCursor |-> 0,
         commandArgs |-> MakeStrings(n, <<>>), commandArgErrors |-> MakeStrings(n, ""),
         commandErrorString |-> ""]

\* StatusBar.processKeys for an f-key bound to the command cmd.
processFKey(s, cmd, selected) ==
    LET n == Len(ArgTypes(cmd))
        s1 == [activeCommand |-> cmd, inputFocus |-> 0, inputCursor |-> 0,
               commandArgs |-> MakeStrings(n, <<>>), commandArgErrors |-> MakeStrings(n, ""),
               commandErrorString |-> ""]
    IN  IF selected # NoAircraft THEN setSelectedAircraft(s1, selected, TRUE) ELSE s1

\* The notice for an f-key nothing is bound to.
NoCommandBound == "No command bound to F1"

\* processKeys for an f-key without a binding, leaving the notice out.
processUnboundFKeySilent(s) == s

\* StatusBar.processKeys for an f-key without a binding.
processUnboundFKey(s) == [s EXCEPT !.commandErrorString = NoCommandBound]

\* processKeys for Escape that leaves the command-level error in place.
processEscapeKeepError(s) == [s EXCEPT !.activeCommand = NoCommand]

\* StatusBar.processKeys for Escape.
processEscape(s) == [s EXCEPT !.activeCommand = NoCommand, !.commandErrorString = ""]

\* Whether StatusBar.draw shows a text edit field: a command is active and
\* the focus is on one of its argument slots.
HasField(s) == s.activeCommand # NoCommand /\ s.inputFocus < Len(s.commandArgs)

\* StatusBar.draw up to the switch: the focused argument is upper-cased.
drawFields(s) ==
    IF HasField(s)
    THEN [s EXCEPT !.commandArgs[s.inputFocus + 1] = ToUpper(@)]
    ELSE s

\* TextEditReturnTextChanged: the field holds the text t with the cursor at
\* `cursor`.
textChanged(s, t, cursor) ==
    [s EXCEPT !.commandArgs[s.inputFocus + 1] = ToUpper(t),
              !.inputCursor = cursor,
              !.commandErrorString = "",
              !.commandArgErrors = MakeStrings(Len(s.commandArgErrors), "")]

\* The per-argument errors of TextEditReturnEnter.
ArgErrors(s) ==
    LET tys == ArgTypes(s.activeCommand)
    IN  [i \in 1 .. Len(s.commandArgs) |-> Expand(tys[i], s.commandArgs[i]).err]

\* TextEditReturnEnter that runs the command whatever the arguments are.
enterUnchecked(s, doErr) ==
    LET s1 == [s EXCEPT !.commandErrorString = "", !.commandArgErrors = ArgErrors(s)]
    IN  IF doErr # ""
        THEN [s1 EXCEPT !.commandErrorString = doErr]
        ELSE [s1 EXCEPT !.activeCommand = NoCommand, !.commandArgs = <<>>,
                        !.commandArgErrors = <<>>]

\* TextEditReturnEnter that clears the command out whatever Do returns.
enterClearOnFailure(s, doErr) ==
    LET s1 == [s EXCEPT !.commandErrorString = "", !.commandArgErrors = ArgErrors(s)]
        anyArgErrors == \E i \in 1 .. Len(s.commandArgs) : s1.commandArgErrors[i] # ""
    IN  IF anyArgErrors THEN s1
        ELSE [s1 EXCEPT !.activeCommand = NoCommand, !.commandArgs = <<>>,
                        !.commandArgErrors = <<>>]

\* TextEditReturnEnter; doErr is what FKeyCommand.Do returns if it is run.
enter(s, doErr) ==
    LET s1 == [s EXCEPT !.commandErrorString = "", !.commandArgErrors = ArgErrors(s)]
        anyArgErrors == \E i \in 1 .. Len(s.commandArgs) : s1.commandArgErrors[i] # ""
    IN  IF anyArgErrors THEN s1
        ELSE IF doErr # ""
        THEN [s1 EXCEPT !.commandErrorString = doErr]
        ELSE [s1 EXCEPT !.activeCommand = NoCommand, !.commandArgs = <<>>,
                        !.commandArgErrors = <<>>]

\* Whether TextEditReturnEnter calls FKeyCommand.Do.
Executes(s) ==
    \A i \in 1 .. Len(s.commandArgs) : ArgErrors(s)[i] = ""

\* TextEditReturnNext that stops at the last field.
nextFieldNoWrap(s) ==
    LET n == Len(s.commandArgs)
        f == IF s.inputFocus + 1 < n THEN s.inputFocus + 1 ELSE s.inputFocus
    IN  [s EXCEPT !.inputFocus = f, !.inputCursor = Len(s.commandArgs[f + 1])]

\* TextEditReturnNext
nextField(s) ==
    LET n == Len(s.commandArgs)
        f == (s.inputFocus + 1) % n
    IN  [s EXCEPT !.inputFocus = f, !.inputCursor = Len(s.commandArgs[f + 1])]

\* TextEditReturnPrev
prevField(s) ==
    LET n == Len(s.commandArgs)
        f == (s.inputFocus + n - 1) % n
    IN  [s EXCEPT !.inputFocus = f, !.inputCursor = Len(s.commandArgs[f + 1])]

\* What FKeyCommand.Do can return: success, or a failure message.
DoResults == {"", "Unable to comply"}

\* The record of the input a frame handled.
KeyLog(input, arg, executed) ==
    [input |-> input, arg |-> arg, executed |-> executed, before |-> sb,
     selected |-> selectedAircraft]

\* StatusBar.Draw as a step: the fields after it and its record.
StatusBarStep(s1, log) ==
    /\ sb' = s1
    /\ sbLog' = log
    /\ activeCommand' = (s1.activeCommand # NoCommand)
    /\ statusBarHasFocus' = (s1.activeCommand # NoCommand)
    /\ UNCHANGED <<heap, paneKind, DisplayRoot, editorBackupRoot, showConfigEditor,
                   paneFirstPick, handlePanePick, active, paneCreatePrompt,
                   paneConfigHelpText, fullScreenDisplayNode, crashed, lastOp,
                   entryShape, frames, edited, hit, keyboardFocusPane,
                   keyboardFocusStack, mouseConsumerOverride, mouseDown, frameLog>>

\* An aircraft is selected: the event reaches the status bar, and the
\* aircraft becomes positionConfig.selectedAircraft unless a CLIPane
\* consumed the selection.
AircraftSelected(callsign, consumed) ==
    /\ selectedAircraft' = IF consumed THEN selectedAircraft ELSE callsign
    /\ StatusBarStep(drawFields(processEvents(sb, callsign)),
                     KeyLog("Selected", callsign, FALSE))

\* An f-key bound to cmd is pressed.
FKeyPressed(cmd) ==
    /\ StatusBarStep(drawFields(processFKey(sb, cmd, selectedAircraft)),
                     KeyLog("FKey", cmd, FALSE))
    /\ UNCHANGED selectedAircraft

\* An f-key that nothing is bound to is pressed.
UnboundFKeyPressed ==
    /\ StatusBarStep(drawFields(processUnboundFKey(sb)), KeyLog("FKeyUnbound", "", FALSE))
    /\ UNCHANGED selectedAircraft

\* Escape is pressed.
EscapePressed ==
    /\ StatusBarStep(drawFields(processEscape(sb)), KeyLog("Escape", "", FALSE))
    /\ UNCHANGED selectedAircraft

\* The text of the focused field is edited.
TextEdited(t, cursor) ==
    /\ HasField(sb)
    /\ ToUpper(t) # sb.commandArgs[sb.inputFocus + 1]
    /\ cursor \in {0, Len(t)}
    /\ StatusBarStep(textChanged(sb, t, cursor), KeyLog("Text", t, FALSE))
    /\ UNCHANGED selectedAircraft

\* Enter is pressed in the focused field.
EnterPressed(doErr) ==
    /\ HasField(sb)
    /\ StatusBarStep(enter(drawFields(sb), doErr), KeyLog("Enter", doErr, Executes(sb)))
    /\ UNCHANGED selectedAircraft

\* The key for the next field is pressed in the focused field.
NextFieldPressed ==
    /\ HasField(sb)
    /\ StatusBarStep(nextField(drawFields(sb)), KeyLog("Next", "", FALSE))
    /\ UNCHANGED selectedAircraft

\* The key for the previous field is pressed in the focused field.
PrevFieldPressed ==
    /\ HasField(sb)
    /\ StatusBarStep(prevField(drawFields(sb)), KeyLog("Prev", "", FALSE))
    /\ UNCHANGED selectedAircraft

ConsoleNext ==
    \/ \E callsign \in Callsigns, consumed \in BOOLEAN : AircraftSelected(callsign, consumed)
    \/ \E cmd \in Commands : FKeyPressed(cmd)
    \/ UnboundFKeyPressed
    \/ EscapePressed
    \/ \E t \in Texts, cursor \in 0 .. 2 : TextEdited(t, cursor)
    \/ \E doErr \in DoResults : EnterPressed(doErr)
    \/ NextFieldPressed
    \/ PrevFieldPressed

ConsoleSpec == Init /\ [][ConsoleNext]_vars

-----------------------------------------------------------------------------
\* Matching the objects before and after a step.

\* A node's contents under the renumbering recorded in op.
Renamed(d, op) ==
    DisplayNode(IF d.Pane \in Panes THEN op.paneMap[d.Pane] ELSE d.Pane,
                d.SplitLine,
                IF d.Children[1] \in Nodes THEN op.nodeMap[d.Children[1]] ELSE d.Children[1],
                IF d.Children[2] \in Nodes THEN op.nodeMap[d.Children[2]] ELSE d.Children[2])

\* The nodes / panes of the state after a step that existed before it.
SurvivingNodes(op) == {op.nodeMap[n] : n \in UsedNodes} \ {NIL}
SurvivingPanes(op) == {op.paneMap[p] : p \in UsedPanes} \ {NIL}

\* The step recorded in op is a pane pick handled by the callback fn.
IsPick(op, fns) == op.op = "Pick" /\ op.fn \in fns

IsLeaf(d) ==
    d.Pane # NIL /\ d.SplitLine.Axis = SplitAxisNone
    /\ d.Children[1] = NIL /\ d.Children[2] = NIL

IsInterior(d) ==
    d.Pane = NIL /\ d.SplitLine.Axis # SplitAxisNone
    /\ d.Children[1] # NIL /\ d.Children[2] # NIL

\* The pane types of the leaves under d, in visiting order.
LeafKinds(h, k, d) ==
    LET v == SelectSeq(VisitPanes(h, d), LAMBDA p : p # SPLITLINE)
    IN  [i \in 1 .. Len(v) |-> IF v[i] \in Panes THEN k[v[i]] ELSE "nil"]

-----------------------------------------------------------------------------
\* C1: in every reachable state every node of the active tree, of the
\* editor's backup and of a full-screen subtree is a leaf (Pane set, no
\* axis, no children) or an interior node (no Pane, an axis, two children),
\* never both and never neither.
C1_LeafXorInterior ==
    \A n \in UsedNodes :
        /\ IsLeaf(heap[n]) \/ IsInterior(heap[n])
        /\ ~(IsLeaf(heap[n]) /\ IsInterior(heap[n]))

\* A Delete pick has collapsed a three-leaf tree to an interior root.
C1_Witness ==
    /\ IsPick(lastOp, {"Delete"}) /\ ~crashed
    /\ IsInterior(heap[DisplayRoot])

\* C2: the Delete pick handler is never invoked on the pane held by the
\* root of the active tree (a pane with no parent node).
C2_RootNeverDeleted ==
    [][~(/\ IsPick(lastOp', {"Delete"})
         /\ heap[DisplayRoot].Pane = lastOp'.pane)]_vars

\* The picked pane, or the first pick recorded for Copy / Exchange, is held
\* by no node of the active tree, or Delete is given a pane without a parent.
TargetMissing(pane) ==
    \/ NodeForPane(heap, DisplayRoot, pane) = NIL
    \/ /\ handlePanePick.fn \in {"Copy", "Exchange"}
       /\ paneFirstPick # NIL
       /\ NodeForPane(heap, DisplayRoot, paneFirstPick) = NIL
    \/ /\ handlePanePick.fn = "Delete"
       /\ ParentNodeForPane(heap, DisplayRoot, pane)[1] = NIL

\* C3: a pick whose target cannot be located in the active tree is aborted:
\* the tree is left exactly as it was and the program keeps running.
C3_MissingTargetAborts ==
    [][(lastOp'.op = "Pick" /\ TargetMissing(lastOp'.pane))
          => /\ ~crashed'
             /\ heap' = heap
             /\ DisplayRoot' = DisplayRoot]_vars

\* C4: a Split pick with axis A on the leaf holding pane P turns that node,
\* in place, into an interior node with axis A and position 0.5 whose
\* children are two new leaves, one holding P and one a new EmptyPane; no
\* other node of the tree changes and the tree has one leaf more.
C4_SplitInPlace ==
    [][LET op == lastOp'
           pane == op.pane
           node == NodeForPane(heap, DisplayRoot, pane)
           axis == IF op.fn = "Split Horizontally" THEN SplitAxisX ELSE SplitAxisY
       IN  (IsPick(op, {"Split Horizontally", "Split Vertically"}) /\ node \in Nodes)
           => LET n == op.nodeMap[node]
                  c0 == heap'[n].Children[1]
                  c1 == heap'[n].Children[2]
                  kept == {c \in {c0, c1} : heap'[c].Pane = op.paneMap[pane]}
                  added == {c0, c1} \ kept
              IN  /\ ~crashed'
                  /\ n # NIL
                  /\ heap'[n].Pane = NIL
                  /\ heap'[n].SplitLine = SplitLine(PosHalf, axis)
                  /\ c0 \in Nodes /\ c1 \in Nodes /\ c0 # c1
                  /\ {c0, c1} \cap SurvivingNodes(op) = {}
                  /\ IsLeaf(heap'[c0]) /\ IsLeaf(heap'[c1])
                  /\ Cardinality(kept) = 1 /\ Cardinality(added) = 1
                  /\ \A c \in added :
                        /\ heap'[c].Pane \notin SurvivingPanes(op)
                        /\ paneKind'[heap'[c].Pane] = "EmptyPane"
                  /\ \A x \in Reach(heap, DisplayRoot) \ {node} :
                        /\ op.nodeMap[x] # NIL
                        /\ heap'[op.nodeMap[x]] = Renamed(heap[x], op)
                  /\ DisplayRoot' = op.nodeMap[DisplayRoot]
                  /\ LeafCount(heap', DisplayRoot') = LeafCount(heap, DisplayRoot) + 1]_vars

\* A vertical split has just produced the third leaf.
C4_Witness ==
    /\ IsPick(lastOp, {"Split Vertically"}) /\ ~crashed
    /\ LeafCount(heap, DisplayRoot) = 3

\* C5: a Delete pick on the leaf found at (parent, idx) overwrites the parent
\* with the former contents of parent.Children[idx ^ 1]; the rest of the
\* tree is unchanged and the tree has one leaf less.
C5_DeleteCollapses ==
    [][LET op == lastOp'
           r == ParentNodeForPane(heap, DisplayRoot, op.pane)
           parent == r[1]
           idx == r[2]
       IN  (IsPick(op, {"Delete"}) /\ parent \in Nodes)
           => LET picked == Child(heap, parent, idx)
                  sibling == Child(heap, parent, 1 - idx)
              IN  /\ ~crashed'
                  /\ op.nodeMap[parent] # NIL
                  /\ heap'[op.nodeMap[parent]] = Renamed(heap[sibling], op)
                  /\ \A x \in Reach(heap, DisplayRoot) \ {parent, picked, sibling} :
                        /\ op.nodeMap[x] # NIL
                        /\ heap'[op.nodeMap[x]] = Renamed(heap[x], op)
                  /\ DisplayRoot' = op.nodeMap[DisplayRoot]
                  /\ LeafCount(heap', DisplayRoot') = LeafCount(heap, DisplayRoot) - 1]_vars

\* A Delete pick whose sibling was an interior node: the parent has taken
\* the sibling's divider and children, so nodes that were below the sibling
\* are met earlier in the walk than before.
C5_Witness ==
    /\ IsPick(lastOp, {"Delete"}) /\ ~crashed
    /\ LeafCount(heap, DisplayRoot) = 2
    /\ \E x \in Nodes : lastOp.nodeMap[x] \notin {NIL, x}

\* C6: Exchange.  The first click records the pick, leaves the tree
\* unchanged and keeps the pick pending; a second click on another pane,
\* both panes being held by leaves of the active tree, swaps the panes of
\* the two leaves and changes nothing else; a second click on the same pane
\* completes the action with the tree unchanged.
C6_ExchangeProtocol ==
    [][LET op == lastOp'
           pane == op.pane
           n0 == NodeForPane(heap, DisplayRoot, paneFirstPick)
           n1 == NodeForPane(heap, DisplayRoot, pane)
           same == /\ DisplayRoot' = op.nodeMap[DisplayRoot]
                   /\ \A x \in Reach(heap, DisplayRoot) :
                         /\ op.nodeMap[x] # NIL
                         /\ heap'[op.nodeMap[x]] = Renamed(heap[x], op)
           completed == /\ handlePanePick' = NoHandler
                        /\ paneFirstPick' = NIL
                        /\ active' = ""
       IN  IsPick(op, {"Exchange"}) =>
             /\ paneFirstPick = NIL =>
                   /\ ~crashed' /\ same
                   /\ paneFirstPick' = op.paneMap[pane]
                   /\ paneFirstPick' # NIL
                   /\ handlePanePick'.fn = "Exchange"
                   /\ active' = active
             /\ (paneFirstPick # NIL /\ pane = paneFirstPick) =>
                   ~crashed' /\ same /\ completed
             /\ (paneFirstPick # NIL /\ pane # paneFirstPick
                 /\ n0 \in Nodes /\ n1 \in Nodes) =>
                   /\ ~crashed' /\ completed
                   /\ DisplayRoot' = op.nodeMap[DisplayRoot]
                   /\ heap'[op.nodeMap[n0]].Pane = op.paneMap[pane]
                   /\ heap'[op.nodeMap[n1]].Pane = op.paneMap[paneFirstPick]
                   /\ op.paneMap[pane] # NIL /\ op.paneMap[paneFirstPick] # NIL
                   /\ Shape(heap', DisplayRoot') = Shape(heap, DisplayRoot)
                   /\ \A x \in Reach(heap, DisplayRoot) \ {n0, n1} :
                         /\ op.nodeMap[x] # NIL
                         /\ heap'[op.nodeMap[x]] = Renamed(heap[x], op)]_vars

\* An Exchange has completed on the two leaves of a split root: the radar
\* scope now comes first and the EmptyPane the split created second.
C6_Witness ==
    /\ IsPick(lastOp, {"Exchange"}) /\ ~crashed
    /\ handlePanePick = NoHandler
    /\ LeafKinds(heap, paneKind, DisplayRoot) = <<RootKind, "EmptyPane">>

\* C7: Copy.  The first click on A records A and leaves the tree unchanged
\* with the pick pending; the second click on another pane B, A and B being
\* held by leaves of the active tree, replaces the pane of B's leaf by a new
\* pane of A's type, distinct from A; A stays at its node, nothing else
\* changes, and the pick ends with the source cleared.
C7_CopyProtocol ==
    [][LET op == lastOp'
           pane == op.pane
           nA == NodeForPane(heap, DisplayRoot, paneFirstPick)
           nB == NodeForPane(heap, DisplayRoot, pane)
       IN  IsPick(op, {"Copy"}) =>
             /\ paneFirstPick = NIL =>
                   /\ ~crashed'
                   /\ DisplayRoot' = op.nodeMap[DisplayRoot]
                   /\ \A x \in Reach(heap, DisplayRoot) :
                         /\ op.nodeMap[x] # NIL
                         /\ heap'[op.nodeMap[x]] = Renamed(heap[x], op)
                   /\ paneFirstPick' = op.paneMap[pane]
                   /\ paneFirstPick' # NIL
                   /\ handlePanePick'.fn = "Copy"
                   /\ active' = active
             /\ (paneFirstPick # NIL /\ pane # paneFirstPick
                 /\ nA \in Nodes /\ nB \in Nodes) =>
                   LET new == heap'[op.nodeMap[nB]].Pane
                   IN  /\ ~crashed'
                       /\ new \in Panes
                       /\ new \notin SurvivingPanes(op)
                       /\ new # op.paneMap[paneFirstPick]
                       /\ paneKind'[new] = paneKind[paneFirstPick]
                       /\ heap'[op.nodeMap[nA]].Pane = op.paneMap[paneFirstPick]
                       /\ op.paneMap[paneFirstPick] # NIL
                       /\ DisplayRoot' = op.nodeMap[DisplayRoot]
                       /\ Shape(heap', DisplayRoot') = Shape(heap, DisplayRoot)
                       /\ \A x \in Reach(heap, DisplayRoot) \ {nB} :
                             /\ op.nodeMap[x] # NIL
                             /\ heap'[op.nodeMap[x]] = Renamed(heap[x], op)
                       /\ paneFirstPick' = NIL
                       /\ handlePanePick' = NoHandler
                       /\ active' = ""]_vars

\* A Copy of the radar scope over the EmptyPane beside it has completed.
C7_Witness ==
    /\ IsPick(lastOp, {"Copy"}) /\ ~crashed
    /\ handlePanePick = NoHandler
    /\ LeafKinds(heap, paneKind, DisplayRoot) = <<RootKind, RootKind>>

\* C8: no two leaves of the active tree hold the same pane.
C8_PanesUnique ==
    LET v == VisitPanes(heap, DisplayRoot)
    IN  \A i, j \in 1 .. Len(v) :
            (i # j /\ v[i] # SPLITLINE /\ v[j] # SPLITLINE) => v[i] # v[j]

\* A Copy of the EmptyPane over the radar scope beside it has completed.
C8_Witness ==
    /\ IsPick(lastOp, {"Copy"}) /\ ~crashed
    /\ handlePanePick = NoHandler
    /\ LeafKinds(heap, paneKind, DisplayRoot) = <<"EmptyPane", "EmptyPane">>

\* C9: the duplicate made on entering edit mode has the shape, axes and
\* positions of the tree, consists of new nodes only and holds a new pane of
\* the same type at every leaf; and as long as the backup is kept no step
\* (edit of the tree, divider drag) changes any node of it.
C9_DuplicateIndependent ==
    [][LET op == lastOp'
       IN  /\ op.op = "EnterEdit" =>
                /\ editorBackupRoot' \in Nodes
                /\ Shape(heap', editorBackupRoot') = Shape(heap, DisplayRoot)
                /\ LeafKinds(heap', paneKind', editorBackupRoot')
                      = LeafKinds(heap, paneKind, DisplayRoot)
                /\ Reach(heap', editorBackupRoot') \cap SurvivingNodes(op) = {}
                /\ LeafPanes(heap', editorBackupRoot') \cap SurvivingPanes(op) = {}
                /\ DisplayRoot' = op.nodeMap[DisplayRoot]
                /\ \A x \in Reach(heap, DisplayRoot) :
                      heap'[op.nodeMap[x]] = Renamed(heap[x], op)
           /\ (editorBackupRoot # NIL /\ op.op \notin {"Save", "Revert"}) =>
                /\ editorBackupRoot' = op.nodeMap[editorBackupRoot]
                /\ \A x \in Reach(heap, editorBackupRoot) :
                      /\ op.nodeMap[x] # NIL
                      /\ heap'[op.nodeMap[x]] = Renamed(heap[x], op)
           /\ editorBackupRoot' # NIL =>
                /\ Reach(heap', editorBackupRoot') \cap Reach(heap', DisplayRoot') = {}
                /\ LeafPanes(heap', editorBackupRoot')
                      \cap LeafPanes(heap', DisplayRoot') = {}]_vars

\* The backup of a split tree is alive while the tree has since been edited.
C9_Witness ==
    /\ editorBackupRoot # NIL
    /\ IsInterior(heap[editorBackupRoot])
    /\ edited
    /\ Shape(heap, editorBackupRoot) # Shape(heap, DisplayRoot)

\* C10: Revert leaves the active tree with the shape, divider axes and
\* divider positions it had when edit mode was entered.
C10_RevertRestores ==
    [][lastOp'.op = "Revert" => Shape(heap', DisplayRoot') = entryShape]_vars

\* A Revert has undone edits made to a tree that was split on entry.
C10_Witness ==
    /\ lastOp.op = "Revert"
    /\ edited
    /\ IsInterior(heap[DisplayRoot])

\* C11: a hit test returns nil for a mouse position outside the display
\* extent; for a position inside it returns a pane or split line that
\* VisitPanesWithBounds, for the same extent, visits with a rectangle that
\* contains the position, and every rectangle it gives that pane or split
\* line contains the position.
C11_HitTestAgrees ==
    hit.done =>
        LET v == hit.visited
            at == {i \in 1 .. Len(v) : v[i].pane = hit.mousePane}
        IN  /\ ~Inside(hit.displayExtent, hit.p) => hit.mousePane = NIL
            /\ Inside(hit.displayExtent, hit.p) =>
                  /\ hit.mousePane # NIL
                  /\ at # {}
                  /\ \A i \in at : Inside(v[i].extent, hit.p)

\* A hit on the split line of a nested node at a position that is not in
\* the root's first child.
C11_Witness ==
    /\ hit.done
    /\ LeafCount(heap, DisplayRoot) = 3
    /\ hit.mousePane < NIL
    /\ hit.mousePane # SplitLineRef(DisplayRoot)
    /\ heap[DisplayRoot].SplitLine.Axis = SplitAxisX
    /\ heap[Child(heap, DisplayRoot, 1)].SplitLine.Axis = SplitAxisY

C13_KeyboardToFocusOnly ==
    frameLog.drawn =>
        /\ Cardinality(frameLog.keyboard) <= 1
        /\ \A i \in frameLog.keyboard : frameLog.visited[i] = frameLog.focusAtDispatch
        /\ statusBarHasFocus => frameLog.keyboard = {}

\* C14: in every frame at whose start a command is active, or in which a
\* key makes one active, no pane is given keyboard input; the frames of the
\* Enter that executes the command and of the Escape that cancels it
\* included.
C14_ConsoleExclusive ==
    (frameLog.drawn /\ (frameLog.commandBefore \/ activeCommand))
        => frameLog.keyboard = {}

\* C15: a pane that is not in the active hierarchy is not the keyboard
\* focus: not once the frame of the edit that removed it is over (the focus
\* is nil from then until the next frame picks a default), and not at the
\* time a frame's traversal hands out the keyboard.
C15_AbsentNeverFocus ==
    /\ keyboardFocusPane # NIL => wmPaneIsPresent(heap, DisplayRoot, keyboardFocusPane)
    /\ frameLog.drawn => frameLog.focusAtDispatch \in frameLog.present \cup {NIL}

\* C16 as stated: when a frame starts without a keyboard focus, the focus
\* becomes the first CLIPane of the walk over the hierarchy if there is
\* one, else the first pane that can take the keyboard focus, else it stays
\* nil; it is never a split line.
C16_DefaultIsFirst ==
    [][(frameLog'.drawn /\ keyboardFocusPane = NIL) =>
          LET v == VisitPanes(heap, DisplayRoot)
              f == frameLog'.focusAtDispatch
              cli == {i \in 1 .. Len(v) : v[i] \in Panes /\ paneKind[v[i]] = "CLIPane"}
              any == {i \in 1 .. Len(v) :
                         v[i] \in Panes /\ CanTakeKeyboardFocus(paneKind[v[i]])}
          IN  /\ cli # {} => \E i \in cli : /\ f = lastOp'.paneMap[v[i]]
                                            /\ \A j \in cli : i <= j
              /\ (cli = {} /\ any # {}) => \E i \in any : /\ f = lastOp'.paneMap[v[i]]
                                                          /\ \A j \in any : i <= j
              /\ (cli = {} /\ any = {}) => f = NIL
              /\ ~IsSplitLine(f)]_vars

\* C16, amended: when a frame starts without a keyboard focus, the focus
\* becomes the last CLIPane of the walk over the hierarchy if there is one,
\* else the last pane that can take the keyboard focus, else it stays nil;
\* it is never a split line.
C16_DefaultIsLast ==
    [][(frameLog'.drawn /\ keyboardFocusPane = NIL) =>
          LET v == VisitPanes(heap, DisplayRoot)
              f == frameLog'.focusAtDispatch
              cli == {i \in 1 .. Len(v) : v[i] \in Panes /\ paneKind[v[i]] = "CLIPane"}
              any == {i \in 1 .. Len(v) :
                         v[i] \in Panes /\ CanTakeKeyboardFocus(paneKind[v[i]])}
          IN  /\ cli # {} => \E i \in cli : /\ f = lastOp'.paneMap[v[i]]
                                            /\ \A j \in cli : j <= i
              /\ (cli = {} /\ any # {}) => \E i \in any : /\ f = lastOp'.paneMap[v[i]]
                                                          /\ \A j \in any : j <= i
              /\ (cli = {} /\ any = {}) => f = NIL
              /\ ~IsSplitLine(f)]_vars

\* A frame that started without a focus has made the second of two
\* CLIPanes the focus, in a hierarchy that an empty pane follows them in.
C16_Witness ==
    /\ frameLog.drawn
    /\ frameLog.focusBefore.focus = NIL
    /\ frameLog.input.widget = "" /\ ~frameLog.picked
    /\ LET v == VisitPanes(heap, DisplayRoot)
       IN  \E i, j, k \in 1 .. Len(v) :
               /\ i < j /\ j < k
               /\ v[i] \in Panes /\ paneKind[v[i]] = "CLIPane"
               /\ v[j] \in Panes /\ paneKind[v[j]] = "CLIPane"
               /\ v[k] \in Panes /\ paneKind[v[k]] = "EmptyPane"
               /\ frameLog.focusAtDispatch = v[j]

\* C17 as stated: a frame with a click or drag and no override set makes
\* the hovered pane or split line the override; in every frame that starts
\* with the override set, the override is still set when the traversal
\* hands out the mouse, it is given the mouse if it is visited and nothing
\* else is, wherever the pointer is; it stays set while a click or drag goes
\* on and is cleared after the traversal of the first frame without one.
C17_MouseOverride ==
    [][frameLog'.drawn =>
          LET f == frameLog'
              gesture == f.input.clicked # "" \/ f.input.dragging
          IN  /\ (f.overrideBefore = NIL /\ gesture) => f.overrideAtDispatch = f.mousePane
              /\ f.overrideBefore # NIL =>
                    /\ f.overrideAtDispatch = f.overrideBefore
                    /\ \A i \in 1 .. Len(f.visited) :
                           i \in f.mouse <=> f.visited[i] = f.overrideBefore
                    /\ mouseConsumerOverride' = IF gesture THEN f.overrideBefore ELSE NIL]_vars

\* C17, amended: the same in the frames in which imgui does not want the
\* mouse; in a frame in which it does, the override is cleared before the
\* traversal and no pane or split line is given the mouse.
C17_MouseOverrideUnlessCaptured ==
    [][frameLog'.drawn =>
          LET f == frameLog'
              gesture == f.input.clicked # "" \/ f.input.dragging
          IN  /\ (f.overrideBefore = NIL /\ gesture /\ ~f.input.capture)
                     => f.overrideAtDispatch = f.mousePane
              /\ (f.overrideBefore # NIL /\ ~f.input.capture) =>
                    /\ f.overrideAtDispatch = f.overrideBefore
                    /\ \A i \in 1 .. Len(f.visited) :
                           i \in f.mouse <=> f.visited[i] = f.overrideBefore
                    /\ mouseConsumerOverride' = IF gesture THEN f.overrideBefore ELSE NIL
              /\ f.input.capture =>
                    /\ f.overrideAtDispatch = NIL
                    /\ f.mouse = {}
                    /\ mouseConsumerOverride' = NIL]_vars

\* A button went down over one pane and is held with the pointer over
\* another: the first pane is the override and is the one given the mouse.
C17_Witness ==
    /\ frameLog.drawn
    /\ frameLog.input.dragging /\ frameLog.input.clicked = ""
    /\ frameLog.overrideBefore \in Panes
    /\ frameLog.mousePane \in Panes \ {frameLog.overrideBefore}
    /\ mouseConsumerOverride = frameLog.overrideBefore
    /\ \E i \in frameLog.mouse : frameLog.visited[i] = frameLog.overrideBefore

\* C18: after a pane's call of wmTakeKeyboardFocus(pane, isTransient) the
\* pane is the focus; if isTransient and there was a focus, the stack is the
\* stack before the call with that focus pushed onto it; if not
\* isTransient, the stack is empty.
C18_TakeFocus ==
    (frameLog.drawn /\ frameLog.input.call.fn = "take") =>
        /\ frameLog.after.focus = frameLog.caller
        /\ (frameLog.input.call.isTransient /\ frameLog.before.focus # NIL)
               => frameLog.after.stack = Append(frameLog.before.stack, frameLog.before.focus)
        /\ ~frameLog.input.call.isTransient => frameLog.after.stack = <<>>

\* C19: wmReleaseKeyboardFocus makes the top of the stack the focus and
\* removes it from the stack, and changes nothing if the stack is empty;
\* and in every focus state a frame's traversal can start with, a
\* transient take by a pane of the hierarchy that can take the keyboard
\* focus, followed by a release, gives back that focus and that stack.
C19_ReleaseRestores ==
    /\ (frameLog.drawn /\ frameLog.input.call.fn = "release") =>
           LET n == Len(frameLog.before.stack)
           IN  IF n = 0
               THEN frameLog.after = frameLog.before
               ELSE /\ frameLog.after.focus = frameLog.before.stack[n]
                    /\ frameLog.after.stack = SubSeq(frameLog.before.stack, 1, n - 1)
    /\ LET fs == FocusState(FocusFixup(heap, paneKind, DisplayRoot, keyboardFocusPane),
                            keyboardFocusStack)
       IN  \A pane \in LeafPanes(heap, ViewRoot) :
               CanTakeKeyboardFocus(paneKind[pane])
                   => wmReleaseKeyboardFocus(wmTakeKeyboardFocus(fs, pane, TRUE)) = fs

C21_PickClickNotToPane ==
    (frameLog.drawn /\ frameLog.picked) =>
        \A i \in frameLog.mouse : frameLog.visited[i] # frameLog.mousePane

\* The step recorded in op' left the active tree as it was: the same root
\* and every node with the same contents, up to the renumbering.
TreeUnchanged ==
    /\ DisplayRoot' = lastOp'.nodeMap[DisplayRoot]
    /\ \A x \in Reach(heap, DisplayRoot) :
          /\ lastOp'.nodeMap[x] # NIL
          /\ heap'[lastOp'.nodeMap[x]] = Renamed(heap[x], lastOp')
    /\ Reach(heap', DisplayRoot') = {lastOp'.nodeMap[x] : x \in Reach(heap, DisplayRoot)}

\* C22: a button pressed while another button is the active one makes the
\* pressed button the active one, registers its pick callback in place of
\* the one pending, clears the first pick and leaves the tree unchanged; and
\* a pane pick that follows is handled by the callback of the button pressed
\* last, starting with no first pick.
C22_SwitchAction ==
    [][LET op == lastOp'
       IN  /\ (op.op = "Button" /\ active \in ButtonNames /\ active # op.fn) =>
                 /\ active' = op.fn
                 /\ handlePanePick' = Handler(op.fn, NIL)
                 /\ paneFirstPick' = NIL
                 /\ TreeUnchanged
                 /\ ~crashed'
           /\ (op.op = "Pick" /\ lastOp.op = "Button" /\ lastOp.was.active \in ButtonNames
               /\ lastOp.was.active # lastOp.fn) =>
                 /\ op.fn = lastOp.fn
                 /\ ~op.was.first
                 /\ op.was.active = lastOp.fn]_vars

\* Exchange has been pressed while Copy was active and held its first pick.
C22_Witness ==
    /\ lastOp.op = "Button" /\ lastOp.fn = "Exchange" /\ ~crashed
    /\ lastOp.was.active = "Copy"
    /\ lastOp.was.handler = "Copy"
    /\ lastOp.was.first
    /\ active = "Exchange"
    /\ LeafCount(heap, DisplayRoot) = 2

\* C23: pressing the button that is the active one, at any step of its
\* action, leaves no button active, no pick callback registered, no first
\* pick, an empty help text, and the tree unchanged.
C23_ToggleToCancel ==
    [][(lastOp'.op = "Button" /\ active = lastOp'.fn) =>
          /\ active' = ""
          /\ handlePanePick' = NoHandler
          /\ paneFirstPick' = NIL
          /\ paneConfigHelpText' = ""
          /\ TreeUnchanged
          /\ ~crashed']_vars

C25_DividerClickIgnored ==
    [][(/\ frameLog'.drawn
        /\ frameLog'.input.clicked = "primary"
        /\ handlePanePick # NoHandler
        /\ frameLog'.mousePane = NIL \/ IsSplitLine(frameLog'.mousePane)) =>
          /\ ~frameLog'.picked
          /\ active' = active
          /\ handlePanePick' = Handler(handlePanePick.fn,
                                       RefAfter(lastOp', handlePanePick.newPane))
          /\ paneFirstPick' = RefAfter(lastOp', paneFirstPick)
          /\ (paneFirstPick # NIL) => (paneFirstPick' # NIL)
          /\ TreeUnchanged
          /\ ~crashed']_vars

\* Exchange is active and holds its first pick, and the primary button has
\* been clicked on the split line between the two panes.
C25_Witness ==
    /\ frameLog.drawn /\ ~crashed
    /\ frameLog.input.clicked = "primary"
    /\ IsSplitLine(frameLog.mousePane)
    /\ lastOp.was.handler = "Exchange"
    /\ lastOp.was.first
    /\ paneFirstPick # NIL
    /\ handlePanePick.fn = "Exchange"
    /\ active = "Exchange"

\* The fields of a StatusBar that has just been set up for the command cmd.
FreshCommand(cmd) ==
    LET n == Len(ArgTypes(cmd))
    IN  [activeCommand |-> cmd, inputFocus |-> 0, inputCursor |-> 0,
         commandArgs |-> [i \in 1 .. n |-> <<>>],
         commandArgErrors |-> [i \in 1 .. n |-> ""],
         commandErrorString |-> ""]

\* C26: after a frame in which an f-key bound to a command was pressed,
\* whatever the status bar held before, the command is the active one, there
\* is one argument and one error per parameter, all of them empty, the focus
\* and the cursor are 0 and there is no command error.
C26_FKeyFresh ==
    sbLog.input = "FKey" => sb = FreshCommand(sbLog.arg)

\* C26 as the code has it: the same, except that with an aircraft selected
\* whose callsign meets the requirements of an aircraft parameter of the
\* command, the slot of the first such parameter holds the callsign, and the
\* focus is on the next slot (wrapping) if that slot is the first one.
C26_FKeyFreshOrSelected ==
    sbLog.input = "FKey" =>
        LET cmd == sbLog.arg
            tys == ArgTypes(cmd)
            n == Len(tys)
            sel == sbLog.selected
            accepts == {i \in 1 .. n :
                           /\ tys[i] \in {"Aircraft", "Tracked"}
                           /\ Expand(tys[i], sel).ok
                           /\ Expand(tys[i], sel).value = sel}
        IN  IF sel = NoAircraft \/ accepts = {}
            THEN sb = FreshCommand(cmd)
            ELSE LET i == CHOOSE i \in accepts : \A j \in accepts : i <= j
                 IN  sb = [FreshCommand(cmd) EXCEPT
                              !.commandArgs[i] = sel,
                              !.inputFocus = IF i = 1 THEN 1 % n ELSE 0]

\* "scratchpad" has replaced a command in mid-entry while the tracked
\* aircraft A1 was selected: its first slot holds A1 and the focus is on the
\* second.
C26_Witness ==
    /\ sbLog.input = "FKey"
    /\ sbLog.arg = "scratchpad"
    /\ sbLog.before.activeCommand = "pointout"
    /\ sbLog.before.commandArgs[1] # <<>>
    /\ sbLog.selected = <<"A", "1">>
    /\ sb.commandArgs = << <<"A", "1">>, <<>> >>
    /\ sb.inputFocus = 1

FirstAircraftSlot(cmd) ==
    LET tys == ArgTypes(cmd)
        slots == {i \in 1 .. Len(tys) : tys[i] \in {"Aircraft", "Tracked"}}
    IN  IF slots = {} THEN 0 ELSE CHOOSE i \in slots : \A j \in slots : i <= j

\* C28: an aircraft selected while a command is active is written into the
\* slot of the first aircraft-callsign argument only if the callsign
\* satisfies that argument's requirements; if it does not, no argument
\* text, per-argument error or focus index changes.
C28_SelectionOnlyIfAccepted ==
    (sbLog.input = "Selected" /\ sbLog.before.activeCommand # NoCommand) =>
        LET cmd == sbLog.before.activeCommand
            i == FirstAircraftSlot(cmd)
            e == Expand(ArgTypes(cmd)[i], sbLog.arg)
        IN  (i # 0 /\ ~(e.ok /\ e.value = sbLog.arg)) =>
                /\ sb.commandArgs = sbLog.before.commandArgs
                /\ sb.commandArgErrors = sbLog.before.commandArgErrors
                /\ sb.inputFocus = sbLog.before.inputFocus

\* C28, amended: an aircraft selected while a command is active is written
\* into the slot of the first aircraft-callsign argument whether or not the
\* callsign satisfies that argument's requirements, and no other argument
\* text changes; if the command has no such argument, no argument text,
\* per-argument error or focus index changes.
C28_SelectionWritten ==
    (sbLog.input = "Selected" /\ sbLog.before.activeCommand # NoCommand) =>
        LET cmd == sbLog.before.activeCommand
            i == FirstAircraftSlot(cmd)
        IN  IF i = 0
            THEN /\ sb.commandArgs = sbLog.before.commandArgs
                 /\ sb.commandArgErrors = sbLog.before.commandArgErrors
                 /\ sb.inputFocus = sbLog.before.inputFocus
            ELSE sb.commandArgs = [sbLog.before.commandArgs EXCEPT ![i] = sbLog.arg]

\* The aircraft A2, which is not tracked, was selected during "drop", whose
\* argument takes tracked aircraft only: the slot holds A2.
C28_Witness ==
    /\ sbLog.input = "Selected"
    /\ sbLog.arg = <<"A", "2">>
    /\ sbLog.before.activeCommand = "drop"
    /\ sbLog.before.commandArgs = << <<"A">> >>
    /\ ~Expand("Tracked", <<"A", "2">>).ok
    /\ sb.commandArgs = << <<"A", "2">> >>

\* k times TextEditReturnNext.
RECURSIVE NextFields(_, _)
NextFields(s, k) == IF k = 0 THEN s ELSE NextFields(nextField(s), k - 1)

\* C29: with n >= 1 argument slots, the key for the next field sets the
\* focus index to (focus + 1) mod n and the key for the previous field sets
\* it to (focus - 1) mod n; each puts the cursor at the end of the text of
\* the slot that now has the focus and changes no argument text; next and
\* then previous comes back to the focus index it started from, and so do n
\* times next.
C29_FieldCycle ==
    LET n == Len(sbLog.before.commandArgs)
        f == sbLog.before.inputFocus
    IN  /\ sbLog.input = "Next" => sb.inputFocus = (f + 1) % n
        /\ sbLog.input = "Prev" => sb.inputFocus = (f - 1) % n
        /\ sbLog.input \in {"Next", "Prev"} =>
              /\ sb.inputCursor = Len(sb.commandArgs[sb.inputFocus + 1])
              /\ sb.commandArgs = sbLog.before.commandArgs
        /\ HasField(sb) =>
              /\ prevField(nextField(sb)).inputFocus = sb.inputFocus
              /\ NextFields(sb, Len(sb.commandArgs)).inputFocus = sb.inputFocus

\* The key for the next field was pressed in the last of three slots: the
\* focus is on the first one, with the cursor behind its text.
C29_Witness ==
    /\ sbLog.input = "Next"
    /\ Len(sbLog.before.commandArgs) = 3
    /\ sbLog.before.inputFocus = 2
    /\ sb.inputFocus = 0
    /\ sb.commandArgs[1] = <<"A", "1">>
    /\ sb.inputCursor = 2

\* C30: on Enter the command is run if and only if every argument passes
\* the Expand of its type; if one or more fail, exactly the failing slots
\* get a non-empty error, the command is not run, it stays active and the
\* argument texts are unchanged.
C30_EnterRunsIffValid ==
    sbLog.input = "Enter" =>
        LET b == sbLog.before
            tys == ArgTypes(b.activeCommand)
            fails == {i \in 1 .. Len(b.commandArgs) : ~Expand(tys[i], b.commandArgs[i]).ok}
            ran == sb.activeCommand = NoCommand \/ sb.commandErrorString # ""
        IN  /\ sbLog.executed <=> fails = {}
            /\ ran <=> fails = {}
            /\ fails # {} =>
                  /\ \A i \in 1 .. Len(b.commandArgs) : sb.commandArgErrors[i] # "" <=> i \in fails
                  /\ sb.activeCommand = b.activeCommand
                  /\ sb.commandArgs = b.commandArgs

\* Enter was pressed in "amend" with the second of its three arguments
\* empty: that slot alone has an error and the command is still being
\* entered, the texts in place.
C30_Witness ==
    /\ sbLog.input = "Enter"
    /\ sbLog.before.activeCommand = "amend"
    /\ sbLog.before.commandArgs = << <<"A", "1">>, <<>>, <<"A">> >>
    /\ ~sbLog.executed
    /\ sb.commandArgErrors = <<"", "Missing", "">>
    /\ sb.activeCommand = "amend"
    /\ sb.commandArgs = sbLog.before.commandArgs

\* C31: when Enter runs the command and it succeeds, no command is active
\* any more and the arguments and their errors are cleared; when it fails,
\* the command stays active with the same argument texts and the same
\* focus, and the command-level error is the failure's message.
C31_RunOutcome ==
    (sbLog.input = "Enter" /\ sbLog.executed) =>
        IF sbLog.arg = ""
        THEN /\ sb.activeCommand = NoCommand
             /\ sb.commandArgs = <<>>
             /\ sb.commandArgErrors = <<>>
        ELSE /\ sb.activeCommand = sbLog.before.activeCommand
             /\ sb.commandArgs = sbLog.before.commandArgs
             /\ sb.inputFocus = sbLog.before.inputFocus
             /\ sb.commandErrorString = sbLog.arg

\* "handoff" was run with two valid arguments and failed: it is still being
\* entered, with the texts and the focus where they were and the failure's
\* message as the command-level error.
C31_Witness ==
    /\ sbLog.input = "Enter"
    /\ sbLog.executed
    /\ sbLog.arg = "Unable to comply"
    /\ sbLog.before.activeCommand = "handoff"
    /\ sbLog.before.commandArgs = << <<"A", "1">>, <<"A", "2">> >>
    /\ sbLog.before.inputFocus = 1
    /\ sb.activeCommand = "handoff"
    /\ sb.commandArgs = sbLog.before.commandArgs
    /\ sb.inputFocus = 1
    /\ sb.commandErrorString = "Unable to comply"

C33_ActivationResets ==
    lastOp.op = "ActivateNewConfig" =>
        /\ keyboardFocusPane = NIL
        /\ keyboardFocusStack = <<>>
        /\ mouseConsumerOverride = NIL
        /\ ~activeCommand

\* C34: SplitY(y, newChild) on a leaf d returns an interior node whose split
\* line has the axis SplitAxisY and the position y and whose children are d
\* and newChild, in that order.
C34_SplitYVertical ==
    lastOp.op = "SplitY" =>
        /\ heap[lastOp.ret].SplitLine.Axis = SplitAxisY
        /\ heap[lastOp.ret].SplitLine.Pos = lastOp.pos
        /\ heap[lastOp.ret].Children = <<lastOp.d, lastOp.newChild>>
        /\ heap[lastOp.ret].Pane = NIL

\* C35: whenever the config editor is not shown, no pane pick is pending:
\* the pick handler is nil and no first pick is recorded, so that a click on
\* a pane changes nothing in the hierarchy.
C35_NoPickOutsideEditor ==
    ~showConfigEditor =>
        /\ handlePanePick = NoHandler
        /\ paneFirstPick = NIL
        /\ ~(frameLog.drawn /\ frameLog.picked)

\* C36: whenever a full-screen node is set, it is a node of the active
\* hierarchy: it can be reached from the root.
C36_FullScreenInTree ==
    fullScreenDisplayNode # NIL => fullScreenDisplayNode \in Reach(heap, DisplayRoot)

\* C37: a button of the toolbar is marked active only while its pick is
\* pending: if ModalButtonSet.active is not empty, the pick handler is
\* registered and it is the callback of that button.
C37_ActiveMeansPending ==
    active # "" => handlePanePick.fn = active

\* C38: whenever a command with one or more arguments is active, there is
\* one argument text and one error per declared argument, the focus index is
\* that of one of the arguments, and the cursor offset lies within the text
\* of the focused argument.
C38_IndicesInRange ==
    (sb.activeCommand # NoCommand /\ Len(ArgTypes(sb.activeCommand)) >= 1) =>
        LET n == Len(ArgTypes(sb.activeCommand))
        IN  /\ Len(sb.commandArgs) = n
            /\ Len(sb.commandArgErrors) = n
            /\ 0 <= sb.inputFocus /\ sb.inputFocus < n
            /\ 0 <= sb.inputCursor
            /\ sb.inputCursor <= Len(sb.commandArgs[sb.inputFocus + 1])

\* An aircraft was selected while the cursor stood behind two characters in
\* the first slot of "handoff": the focus has moved to the empty second slot
\* and the cursor is at its start.
C38_Witness ==
    /\ sbLog.input = "Selected"
    /\ sbLog.before.activeCommand = "handoff"
    /\ sbLog.before.inputFocus = 0
    /\ sbLog.before.inputCursor = 2
    /\ sb.activeCommand = "handoff"
    /\ sb.inputFocus = 1
    /\ sb.commandArgs[2] = <<>>
    /\ sb.inputCursor = 0

\* C39: every active command can be submitted: while a command is active,
\* also one without arguments, the status bar has the text field that
\* reports Enter, so that Enter is handled as a submit.
C39_EnterAlwaysSubmits ==
    sb.activeCommand # NoCommand => HasField(sb)

\* C40: every pane on the focus stack is a pane of the active hierarchy, and
\* so a release of the keyboard focus never makes a pane the focus that the
\* hierarchy does not hold.
C40_StackPanesPresent ==
    /\ \A i \in 1 .. Len(keyboardFocusStack) :
          keyboardFocusStack[i] \in LeafPanes(heap, DisplayRoot)
    /\ (frameLog.drawn /\ frameLog.input.call.fn = "release" /\ keyboardFocusPane # NIL) =>
          keyboardFocusPane \in LeafPanes(heap, DisplayRoot)
====
